---- MODULE Spec2Model ----
(***************************************************************************)
(* RVM1.5: per-CPU bring-up (src/src/main.rs), activation / deactivation   *)
(* of the hypervisor on each CPU (src/src/percpu.rs), the hypercall layer  *)
(* (src/src/hypercall/mod.rs), the VM-exit bridge to it                    *)
(* (src/src/arch/x86_64/vmm.rs), the panic path (src/src/lang.rs) and the  *)
(* vendor vCPU operations they call (arch/x86_64/vmx, arch/x86_64/svm).    *)
(*                                                                         *)
(* One process per physical CPU.  An action holds at most one access to a  *)
(* shared atomic; CPU-local work is folded into the action of the shared   *)
(* access that follows it.                                                 *)
(***************************************************************************)
EXTENDS Integers, FiniteSets, Sequences, TLC

\* ---------------------------------------------------------------- bounds
\* Size of the per-CPU array (HvHeader.max_cpus).
MaxCpus == 4

\* The loader calls the entry point once on each of online_cpus CPUs,
\* 1 <= online_cpus <= MaxOnline <= max_cpus, in the bring-up specification.
MaxOnline == 3

\* Number of times deactivate_vmm may fail and hand control back to the guest.
MaxDeactFail == 1

max_cpus == MaxCpus

CPUS == 0 .. (max_cpus - 1)

\* ------------------------------------------------------ program constants
EIO == 5
ENOMEM == 12
EFAULT == 14
EBUSY == 16
ENODEV == 19
EINVAL == 22

HvErrorNums == {1, 2, 5, 7, 12, 14, 16, 17, 19, 22, 34, 38}

VM_EXIT_LEN_HYPERCALL == 3

PrimaryEarlyStages == 5

\* Variant of HvError::code() that forgets the negation.
HvErrorCodePositive(num) == num

\* HvError::code(): the errno, negated.
HvErrorCode(num) == 0 - num

VARIABLES
    vendor,             \* build-time backend: "vmx" or "svm"
    online_cpus,        \* HvHeader.online_cpus
    ENTERED_CPUS, INITED_CPUS, INIT_EARLY_OK, INIT_LATE_OK, ERROR_NUM,
    ACTIVATED_CPUS, TRY_DISABLE_CPUS,
    early,              \* stages of primary_init_early completed (0..5)
    pc,                 \* per CPU: position in entry()/main()/the exit handler
    is_primary,         \* per CPU: main()'s local
    err,                \* per CPU: errno of the Err main() returned (0: none)
    ret,                \* per CPU: <<code>> once entry()'s call has returned
    state,              \* per CPU: PerCpu.state
    cpus,               \* per CPU: hypervisor_disable()'s local
    linux,              \* per CPU: LinuxContext (rip)
    vcpu,               \* per CPU: guest rip, GPR mirror, CR4.OSXSAVE, exit info
    host,               \* per CPU: registers the host resumes with
    deact_fails,        \* failures of deactivate_vmm injected so far
    mem                 \* a page table: kind, entries, frames handed out

vars == << vendor, online_cpus, ENTERED_CPUS, INITED_CPUS, INIT_EARLY_OK,
           INIT_LATE_OK, ERROR_NUM, ACTIVATED_CPUS, TRY_DISABLE_CPUS, early,
           pc, is_primary, err, ret, state, cpus, linux, vcpu, host,
           deact_fails, mem >>

\* ------------------------------------------------ src/src/memory/paging.rs
\* Addresses are plain integers below 2^31: one P4 slot, two P3 slots and
\* full P2 / P1 tables are reachable.
ENTRY_COUNT == 512

Size4K == 4096

Size2M == 2097152

Size1G == 1073741824

PageSizes == {Size4K, Size2M, Size1G}

\* PageSize::is_aligned / align_down / page_offset / is_huge.
is_aligned(size, addr) == addr % size = 0

align_down(size, addr) == addr - (addr % size)

page_offset(size, addr) == addr % size

PageSize_is_huge(size) == size \in {Size1G, Size2M}

\* p4_index .. p1_index: nine bits of the address each.
p4_index(vaddr) == ((vaddr \div Size1G) \div ENTRY_COUNT) % ENTRY_COUNT

p3_index(vaddr) == (vaddr \div Size1G) % ENTRY_COUNT

p2_index(vaddr) == (vaddr \div Size2M) % ENTRY_COUNT

p1_index(vaddr) == (vaddr \div Size4K) % ENTRY_COUNT

\* A page-table entry: the address field and the set of flag bits that are
\* set.  The all-zero entry is the unused one.
ZeroEntry == [addr |-> 0, bits |-> {}]

\* From<MemFlags> for PTF.
PtfFromMemFlags(f) ==
    IF f = {} THEN {}
    ELSE {"PRESENT"}
         \cup (IF "WRITE" \in f THEN {"WRITABLE"} ELSE {})
         \cup (IF "EXECUTE" \notin f THEN {"NO_EXECUTE"} ELSE {})
         \cup (IF "USER" \in f THEN {"USER_ACCESSIBLE"} ELSE {})

\* From<PTF> for MemFlags.
MemFlagsFromPtf(b) ==
    IF b = {} THEN {}
    ELSE {"READ"}
         \cup (IF "WRITABLE" \in b THEN {"WRITE"} ELSE {})
         \cup (IF "NO_EXECUTE" \notin b THEN {"EXECUTE"} ELSE {})
         \cup (IF "USER_ACCESSIBLE" \in b THEN {"USER"} ELSE {})

\* From<MemFlags> for EPTFlags and back: READ, WRITE, EXECUTE only.
EptAccess == {"READ", "WRITE", "EXECUTE"}

EptFromMemFlags(f) == f \cap EptAccess

MemFlagsFromEpt(b) == b \cap EptAccess

\* GenericPTE::flags() of PTEntry, EPTEntry and NPTEntry.
PTE_flags(kind, e) ==
    IF kind = "ept" THEN MemFlagsFromEpt(e.bits) ELSE MemFlagsFromPtf(e.bits)

\* GenericPTE::is_unused(): the raw entry is 0.
PTE_is_unused(e) == e = ZeroEntry

\* GenericPTE::is_present(): PTF::PRESENT, or any of EPT bits 0..3.
PTE_is_present(kind, e) ==
    IF kind = "ept" THEN e.bits \cap EptAccess # {} ELSE "PRESENT" \in e.bits

\* GenericPTE::is_huge().
PTE_is_huge(e) == "HUGE_PAGE" \in e.bits

\* GenericPTE::set_addr(): bits 12..52 of the address.
PTE_set_addr(e, paddr) == [e EXCEPT !.addr = align_down(Size4K, paddr)]

\* GenericPTE::set_flags(flags, is_huge).  NPT adds USER; EPT writes the
\* WriteBack memory type next to the flags.
PTE_set_flags(kind, e, flags, huge) ==
    LET h == IF huge THEN {"HUGE_PAGE"} ELSE {}
    IN  [e EXCEPT !.bits =
            CASE kind = "ept" -> EptFromMemFlags(flags) \cup h \cup {"MT_WB"}
              [] kind = "npt" -> PtfFromMemFlags(flags \cup {"USER"}) \cup h
              [] OTHER -> PtfFromMemFlags(flags) \cup h]

\* GenericPTE::set_table().
PTE_set_table(kind, paddr) ==
    [addr |-> align_down(Size4K, paddr),
     bits |-> IF kind = "ept" THEN EptAccess
              ELSE {"PRESENT", "WRITABLE", "USER_ACCESSIBLE"}]

\* Variant of GenericPTE::clear() that leaves the entry as it is.
PTE_clear_kept(e) == e

\* GenericPTE::clear().
PTE_clear(e) == ZeroEntry

\* Frames of the frame allocator: frame n starts at FrameBase + n * 4K.
FrameBase == 16777216

MaxFrames == 4

FrameAddr(n) == FrameBase + n * Size4K

FrameOf(paddr) == (paddr - FrameBase) \div Size4K

NoLog == [vaddr |-> 0, size |-> 0, paddr |-> 0, flags |-> {}]

\* Level4PageTable::new(): a zeroed root frame, no intermediate tables.
\* `tables` holds the non-zero entries by << frame, index >>; `mapped`,
\* `ops` and `last` remember what was asked of the table, `log` the
\* map_page() call of the last "failed to map page" line, `regions` is the
\* region list of the memory set that owns the table.  `root` is the frame of
\* the level-4 table, `clone` the root frame of the table's clone (0: none);
\* a table and its clone draw frames from the one allocator and share every
\* table below level 4.  `clonee_lock` and `clone_lock` name the Mutex the
\* table and its clone point to, `locked` is the set of Mutexes held, and
\* `users` the calls in flight: CPU, table, operation, and whether the call
\* still spins in lock() or holds the guard.  `data` is what the last guest
\* pointer access returned: the runs of guest-physical bytes it copied or
\* aliases, each as its first address and its length.
PageTableNew(kind) ==
    [kind |-> kind, tables |-> << >>, nframes |-> 1, mapped |-> {},
     ops |-> 0, last |-> [op |-> "new", start |-> 0, size |-> 0, res |-> "Ok"],
     log |-> NoLog, regions |-> {}, root |-> 0, clone |-> 0,
     clonee_lock |-> 0, clone_lock |-> 0, locked |-> {}, users |-> {},
     data |-> << >>]

\* table_of_mut(paddr)[index].
EntryAt(pt, loc) == IF loc \in DOMAIN pt.tables THEN pt.tables[loc] ELSE ZeroEntry

WriteEntry(pt, loc, e) ==
    [pt EXCEPT !.tables =
        IF e = ZeroEntry
        THEN [l \in DOMAIN pt.tables \ {loc} |-> pt.tables[l]]
        ELSE [l \in DOMAIN pt.tables \cup {loc} |->
                 IF l = loc THEN e ELSE pt.tables[l]]]

\* next_table_mut(entry).
next_table_mut(kind, e) ==
    IF ~PTE_is_present(kind, e) THEN [err |-> "NotMapped", frame |-> 0]
    ELSE IF PTE_is_huge(e) THEN [err |-> "MappedToHugePage", frame |-> 0]
    ELSE [err |-> "", frame |-> FrameOf(e.addr)]

\* Level4PageTableImmut::get_entry_mut(vaddr): the walk, written from the
\* last level up; each step takes the table or entry the previous one found.
get_entry_mut(pt, vaddr) ==
    LET no(e) == [err |-> e, loc |-> << 0, 0 >>, size |-> 0]
        from_p1(p1) ==
            IF p1.err # "" THEN no(p1.err)
            ELSE [err |-> "", loc |-> << p1.frame, p1_index(vaddr) >>,
                  size |-> Size4K]
        from_p2_entry(p2l) ==
            IF PTE_is_huge(EntryAt(pt, p2l))
            THEN [err |-> "", loc |-> p2l, size |-> Size2M]
            ELSE from_p1(next_table_mut(pt.kind, EntryAt(pt, p2l)))
        from_p2(p2) ==
            IF p2.err # "" THEN no(p2.err)
            ELSE from_p2_entry(<< p2.frame, p2_index(vaddr) >>)
        from_p3_entry(p3l) ==
            IF PTE_is_huge(EntryAt(pt, p3l))
            THEN [err |-> "", loc |-> p3l, size |-> Size1G]
            ELSE from_p2(next_table_mut(pt.kind, EntryAt(pt, p3l)))
        from_p3(p3) ==
            IF p3.err # "" THEN no(p3.err)
            ELSE from_p3_entry(<< p3.frame, p3_index(vaddr) >>)
    IN  from_p3(next_table_mut(pt.kind, EntryAt(pt, << pt.root, p4_index(vaddr) >>)))

\* Level4PageTableImmut::query(vaddr).
query(pt, vaddr) ==
    LET found(size, e) ==
            IF PTE_is_unused(e) THEN [err |-> "NotMapped"]
            ELSE [err |-> "",
                  paddr |-> e.addr + page_offset(size, vaddr),
                  flags |-> PTE_flags(pt.kind, e),
                  size |-> size]
        result(r) ==
            IF r.err # "" THEN [err |-> r.err]
            ELSE found(r.size, EntryAt(pt, r.loc))
    IN  result(get_entry_mut(pt, vaddr))

\* next_table_mut_or_create(entry, alloc_intrm_table): Frame::new_zero()
\* fails once the allocator has handed out MaxFrames frames.
next_table_mut_or_create(pt, loc) ==
    LET existing(n) == [err |-> n.err, frame |-> n.frame, pt |-> pt]
    IN  IF PTE_is_unused(EntryAt(pt, loc))
        THEN IF pt.nframes >= MaxFrames
             THEN [err |-> "NoMemory", frame |-> 0, pt |-> pt]
             ELSE [err |-> "", frame |-> pt.nframes,
                   pt |-> [WriteEntry(pt, loc,
                                      PTE_set_table(pt.kind,
                                                    FrameAddr(pt.nframes)))
                              EXCEPT !.nframes = pt.nframes + 1]]
        ELSE existing(next_table_mut(pt.kind, EntryAt(pt, loc)))

\* Level4PageTableUnlocked::get_entry_mut_or_create(page), written from the
\* last level up like get_entry_mut().
get_entry_mut_or_create(pt, vaddr, size) ==
    LET no(e, t) == [err |-> e, loc |-> << 0, 0 >>, pt |-> t]
        from_p1(p1) ==
            IF p1.err # "" THEN no(p1.err, p1.pt)
            ELSE [err |-> "", loc |-> << p1.frame, p1_index(vaddr) >>,
                  pt |-> p1.pt]
        from_p2(p2) ==
            IF p2.err # "" THEN no(p2.err, p2.pt)
            ELSE IF size = Size2M
            THEN [err |-> "", loc |-> << p2.frame, p2_index(vaddr) >>,
                  pt |-> p2.pt]
            ELSE from_p1(next_table_mut_or_create(
                             p2.pt, << p2.frame, p2_index(vaddr) >>))
        from_p3(p3) ==
            IF p3.err # "" THEN no(p3.err, p3.pt)
            ELSE IF size = Size1G
            THEN [err |-> "", loc |-> << p3.frame, p3_index(vaddr) >>,
                  pt |-> p3.pt]
            ELSE from_p2(next_table_mut_or_create(
                             p3.pt, << p3.frame, p3_index(vaddr) >>))
    IN  from_p3(next_table_mut_or_create(pt, << pt.root, p4_index(vaddr) >>))

\* Level4PageTableUnlocked::map_page(page, paddr, flags).
map_page(pt, vaddr, size, paddr, flags) ==
    LET written(t) ==
            [err |-> "",
             pt |-> [t EXCEPT !.mapped = @ \cup
                        {[vaddr |-> vaddr, size |-> size,
                          paddr |-> paddr, flags |-> flags]}]]
        result(r) ==
            IF r.err # "" THEN [err |-> r.err, pt |-> r.pt]
            ELSE IF ~PTE_is_unused(EntryAt(r.pt, r.loc))
            THEN [err |-> "AlreadyMapped", pt |-> r.pt]
            ELSE written(WriteEntry(r.pt, r.loc,
                     PTE_set_flags(pt.kind,
                                   PTE_set_addr(ZeroEntry,
                                                align_down(size, paddr)),
                                   flags, PageSize_is_huge(size))))
    IN  result(get_entry_mut_or_create(pt, vaddr, size))

\* Level4PageTableUnlocked::unmap_page(vaddr).
unmap_page(pt, vaddr) ==
    LET cleared(size, t) ==
            [err |-> "", size |-> size,
             pt |-> [t EXCEPT !.mapped =
                        {m \in @ : ~(m.vaddr <= vaddr
                                       /\ vaddr - m.vaddr < m.size)}]]
        result(r) ==
            IF r.err # "" THEN [err |-> r.err, pt |-> pt, size |-> 0]
            ELSE IF PTE_is_unused(EntryAt(pt, r.loc))
            THEN [err |-> "NotMapped", pt |-> pt, size |-> 0]
            ELSE cleared(r.size,
                         WriteEntry(pt, r.loc, PTE_clear(EntryAt(pt, r.loc))))
    IN  result(get_entry_mut(pt, vaddr))

\* Variant of the page-size choice that ignores the physical address.
MapPageSize_any_paddr(vaddr, paddr, size, flags) ==
    IF /\ is_aligned(Size1G, vaddr)
       /\ size >= Size1G /\ "NO_HUGEPAGES" \notin flags
    THEN Size1G
    ELSE IF /\ is_aligned(Size2M, vaddr)
            /\ size >= Size2M /\ "NO_HUGEPAGES" \notin flags
    THEN Size2M
    ELSE Size4K

\* The page size map() picks for the page at vaddr.
MapPageSize(vaddr, paddr, size, flags) ==
    IF /\ is_aligned(Size1G, vaddr) /\ is_aligned(Size1G, paddr)
       /\ size >= Size1G /\ "NO_HUGEPAGES" \notin flags
    THEN Size1G
    ELSE IF /\ is_aligned(Size2M, vaddr) /\ is_aligned(Size2M, paddr)
            /\ size >= Size2M /\ "NO_HUGEPAGES" \notin flags
    THEN Size2M
    ELSE Size4K

\* Level4PageTable::map(region): the loop from `vaddr` with `size` bytes to
\* go; the region's offset mapper gives paddr = vaddr - (start - paddr).  A
\* failing map_page() is logged with what it was asked for.  `size` is a
\* usize: when fewer bytes are left than the page just mapped,
\* `size -= page_size` goes below 0 ("underflow").
RECURSIVE MapLoop(_, _, _, _)
MapLoop(pt, region, vaddr, size) ==
    LET mapped(paddr, page_size, r) ==
            IF r.err # ""
            THEN [res |-> r.err,
                  pt |-> [r.pt EXCEPT !.log = [vaddr |-> vaddr,
                                               size |-> page_size,
                                               paddr |-> paddr,
                                               flags |-> region.flags]]]
            ELSE IF size < page_size THEN [res |-> "underflow", pt |-> r.pt]
            ELSE IF size - page_size = 0 THEN [res |-> "Ok", pt |-> r.pt]
            ELSE MapLoop(r.pt, region, vaddr + page_size, size - page_size)
        page(paddr, page_size) ==
            mapped(paddr, page_size,
                   map_page(pt, vaddr, page_size, paddr, region.flags))
        at(paddr) ==
            page(paddr, MapPageSize(vaddr, paddr, size, region.flags))
    IN  IF size <= 0 THEN [res |-> "Ok", pt |-> pt]
        ELSE at(region.paddr + (vaddr - region.start))

\* Level4PageTable::unmap(region): the loop, with its two assertions.
RECURSIVE UnmapLoop(_, _, _)
UnmapLoop(pt, vaddr, size) ==
    LET unmapped(r) ==
            IF r.err # "" THEN [res |-> r.err, pt |-> r.pt]
            ELSE IF ~is_aligned(r.size, vaddr) \/ r.size > size
            THEN [res |-> "panic", pt |-> r.pt]
            ELSE IF size - r.size <= 0 THEN [res |-> "Ok", pt |-> r.pt]
            ELSE UnmapLoop(r.pt, vaddr + r.size, size - r.size)
    IN  IF size <= 0 THEN [res |-> "Ok", pt |-> pt]
        ELSE unmapped(unmap_page(pt, vaddr))

\* Variant of has_err() that never sees the published error.
has_err_blind == FALSE

\* has_err(): ERROR_NUM.load() != 0.
has_err == ERROR_NUM # 0

\* Return addresses / stack pointers the loader calls the entry point with,
\* guest instruction pointers and register contents at a VM exit.
LoaderRips == {256}

GuestRips == {512}

GuestRbxs == {7}

HypercallCodes == {0, 1}

GuestCpls == {0, 3}

NoExit == [reason |-> "none", guest_rip |-> 0]

\* ------------------------------------------------------------------ Init
Init ==
    /\ vendor \in {"vmx", "svm"}
    /\ online_cpus \in 1 .. MaxOnline
    /\ ENTERED_CPUS = 0
    /\ INITED_CPUS = 0
    /\ INIT_EARLY_OK = 0
    /\ INIT_LATE_OK = 0
    /\ ERROR_NUM = 0
    /\ ACTIVATED_CPUS = 0
    /\ TRY_DISABLE_CPUS = 0
    /\ early = 0
    /\ pc = [c \in CPUS |-> IF c < online_cpus THEN "start" ELSE "offline"]
    /\ is_primary = [c \in CPUS |-> FALSE]
    /\ err = [c \in CPUS |-> 0]
    /\ ret = [c \in CPUS |-> << >>]
    /\ state = [c \in CPUS |-> "HvDisabled"]
    /\ cpus = [c \in CPUS |-> 0]
    /\ linux = [c \in CPUS |-> [rip |-> 0]]
    /\ vcpu = [c \in CPUS |-> [rip |-> 0, rax |-> 0, rbx |-> 0, rcx |-> 0,
                               rdx |-> 0, cpl |-> 0, osxsave |-> FALSE,
                               inject |-> "none", exit |-> NoExit]]
    /\ host = [c \in CPUS |-> << >>]
    /\ deact_fails = 0
    /\ mem = PageTableNew("host")

\* --------------------------------------------------------- src/src/main.rs
\* main() returned Err(num): entry() takes over at "fail".
MainErr(c, num) ==
    /\ err' = [err EXCEPT ![c] = num]
    /\ pc' = [pc EXCEPT ![c] = "fail"]

\* Variant of wait_for_other_completed() that returns Ok at once.
wait_skipped(c, counter, max_value, next) ==
    /\ pc' = [pc EXCEPT ![c] = next]
    /\ err' = err

\* wait_for_other_completed(counter, max_value) followed by `?`: the loop
\* is left once an error is published or the counter has reached max_value;
\* the result is decided by the has_err() read after the loop.  Counters
\* never decrease and ERROR_NUM never returns to 0, so the loop's last
\* iteration and that read are one step.
wait_for_other_completed(c, counter, max_value, next) ==
    /\ has_err \/ counter >= max_value
    /\ IF has_err
       THEN MainErr(c, EBUSY)
       ELSE /\ pc' = [pc EXCEPT ![c] = next]
            /\ err' = err

\* Variant of main()'s first step that counts ENTERED_CPUS down.
MainEnterDown(c) ==
    /\ pc[c] = "start"
    /\ is_primary' = [is_primary EXCEPT ![c] = (ENTERED_CPUS = 0)]
    /\ ENTERED_CPUS' = ENTERED_CPUS - 1
    /\ pc' = [pc EXCEPT ![c] = "wait_entered"]
    /\ UNCHANGED << mem, vendor, online_cpus, INITED_CPUS, INIT_EARLY_OK,
                    INIT_LATE_OK, ERROR_NUM, ACTIVATED_CPUS, TRY_DISABLE_CPUS,
                    early, err, ret, state, cpus, linux, vcpu, host,
                    deact_fails >>

\* main(): ENTERED_CPUS.fetch_add(1) == 0 decides the primary.
MainEnter(c) ==
    /\ pc[c] = "start"
    /\ is_primary' = [is_primary EXCEPT ![c] = (ENTERED_CPUS = 0)]
    /\ ENTERED_CPUS' = ENTERED_CPUS + 1
    /\ pc' = [pc EXCEPT ![c] = "wait_entered"]
    /\ UNCHANGED << mem, vendor, online_cpus, INITED_CPUS, INIT_EARLY_OK,
                    INIT_LATE_OK, ERROR_NUM, ACTIVATED_CPUS, TRY_DISABLE_CPUS,
                    early, err, ret, state, cpus, linux, vcpu, host,
                    deact_fails >>

WaitEntered(c) ==
    /\ pc[c] = "wait_entered"
    /\ wait_for_other_completed(c, ENTERED_CPUS, online_cpus,
                                IF is_primary[c] THEN "early" ELSE "wait_early")
    /\ UNCHANGED << mem, vendor, online_cpus, ENTERED_CPUS, INITED_CPUS,
                    INIT_EARLY_OK, INIT_LATE_OK, ERROR_NUM, ACTIVATED_CPUS,
                    TRY_DISABLE_CPUS, early, is_primary, ret, state, cpus,
                    linux, vcpu, host, deact_fails >>

\* HvSystemConfig::check() rejects a config whose signature or revision
\* does not match.
ConfigCheckErrs == {EINVAL}

\* primary_init_early(): stage 1 init_heap, 2 system_config.check()?,
\* 3 init_frame_allocator, 4 init_hv_page_table()?, 5 cell::init()?.
\* The errno a failing stage returns.
EarlyStageErrs(stage) ==
    CASE stage = 2 -> ConfigCheckErrs
      [] stage = 4 -> {ENOMEM, EINVAL}
      [] stage = 5 -> {ENODEV}
      [] OTHER -> {}

PrimaryInitEarlyStage(c) ==
    /\ pc[c] = "early"
    /\ early < PrimaryEarlyStages
    /\ \/ /\ early' = early + 1
          /\ UNCHANGED << pc, err >>
       \/ /\ \E num \in EarlyStageErrs(early + 1) : MainErr(c, num)
          /\ early' = early
    /\ UNCHANGED << mem, vendor, online_cpus, ENTERED_CPUS, INITED_CPUS,
                    INIT_EARLY_OK, INIT_LATE_OK, ERROR_NUM, ACTIVATED_CPUS,
                    TRY_DISABLE_CPUS, is_primary, ret, state, cpus, linux,
                    vcpu, host, deact_fails >>

\* Variant of primary_init_early() that publishes before its stages ran.
EarlyPublishAnytime == TRUE

\* The guard of the store that ends primary_init_early().
EarlyPublishReady == early = PrimaryEarlyStages

PrimaryInitEarlyPublish(c) ==
    /\ pc[c] = "early"
    /\ EarlyPublishReady
    /\ INIT_EARLY_OK' = 1
    /\ pc' = [pc EXCEPT ![c] = "init"]
    /\ UNCHANGED << mem, vendor, online_cpus, ENTERED_CPUS, INITED_CPUS,
                    INIT_LATE_OK, ERROR_NUM, ACTIVATED_CPUS, TRY_DISABLE_CPUS,
                    early, is_primary, err, ret, state, cpus, linux, vcpu,
                    host, deact_fails >>

WaitEarly(c) ==
    /\ pc[c] = "wait_early"
    /\ wait_for_other_completed(c, INIT_EARLY_OK, 1, "init")
    /\ UNCHANGED << mem, vendor, online_cpus, ENTERED_CPUS, INITED_CPUS,
                    INIT_EARLY_OK, INIT_LATE_OK, ERROR_NUM, ACTIVATED_CPUS,
                    TRY_DISABLE_CPUS, early, is_primary, ret, state, cpus,
                    linux, vcpu, host, deact_fails >>

\* ------------------------------------------------------- src/src/percpu.rs
\* The errno PerCpu::init() can fail with: hvm.insert()? (paging), and
\* Vcpu::new()? (VMX already on: EIO; SVM already on: EBUSY; disabled by
\* the BIOS: ENODEV).
PerCpuInitErrs ==
    IF vendor = "vmx" THEN {ENOMEM, EIO, ENODEV} ELSE {ENOMEM, EBUSY, ENODEV}

\* Vcpu::new(): the guest starts where the loader's call returns (VMX,
\* setup_vmcs_guest); the SVM VMCB is left zeroed by vmcb_setup().
VcpuNew(lx) ==
    [rip |-> IF vendor = "vmx" THEN lx.rip ELSE 0,
     rax |-> 0, rbx |-> 0, rcx |-> 0, rdx |-> 0, cpl |-> 0,
     osxsave |-> FALSE, inject |-> "none", exit |-> NoExit]

\* main(): cpu_data.init(linux_sp, root_cell)?; INITED_CPUS.fetch_add(1).
\* PerCpu::init() sets state = HvDisabled first and HvEnabled last.
PerCpuInit(c) ==
    /\ pc[c] = "init"
    /\ \/ \E lrip \in LoaderRips :
             /\ linux' = [linux EXCEPT ![c] = [rip |-> lrip]]
             /\ vcpu' = [vcpu EXCEPT ![c] = VcpuNew([rip |-> lrip])]
             /\ state' = [state EXCEPT ![c] = "HvEnabled"]
             /\ INITED_CPUS' = INITED_CPUS + 1
             /\ pc' = [pc EXCEPT ![c] = "wait_inited"]
             /\ err' = err
       \/ \E lrip \in LoaderRips, num \in PerCpuInitErrs :
             /\ linux' = [linux EXCEPT ![c] = [rip |-> lrip]]
             /\ state' = [state EXCEPT ![c] = "HvDisabled"]
             /\ MainErr(c, num)
             /\ UNCHANGED << vcpu, INITED_CPUS >>
    /\ UNCHANGED << mem, vendor, online_cpus, ENTERED_CPUS, INIT_EARLY_OK,
                    INIT_LATE_OK, ERROR_NUM, ACTIVATED_CPUS, TRY_DISABLE_CPUS,
                    early, is_primary, ret, cpus, host, deact_fails >>

WaitInited(c) ==
    /\ pc[c] = "wait_inited"
    /\ wait_for_other_completed(c, INITED_CPUS, online_cpus,
                                IF is_primary[c] THEN "late" ELSE "wait_late")
    /\ UNCHANGED << mem, vendor, online_cpus, ENTERED_CPUS, INITED_CPUS,
                    INIT_EARLY_OK, INIT_LATE_OK, ERROR_NUM, ACTIVATED_CPUS,
                    TRY_DISABLE_CPUS, early, is_primary, ret, state, cpus,
                    linux, vcpu, host, deact_fails >>

PrimaryInitLate(c) ==
    /\ pc[c] = "late"
    /\ INIT_LATE_OK' = 1
    /\ pc' = [pc EXCEPT ![c] = "activate"]
    /\ UNCHANGED << mem, vendor, online_cpus, ENTERED_CPUS, INITED_CPUS,
                    INIT_EARLY_OK, ERROR_NUM, ACTIVATED_CPUS, TRY_DISABLE_CPUS,
                    early, is_primary, err, ret, state, cpus, linux, vcpu,
                    host, deact_fails >>

WaitLate(c) ==
    /\ pc[c] = "wait_late"
    /\ wait_for_other_completed(c, INIT_LATE_OK, 1, "activate")
    /\ UNCHANGED << mem, vendor, online_cpus, ENTERED_CPUS, INITED_CPUS,
                    INIT_EARLY_OK, INIT_LATE_OK, ERROR_NUM, ACTIVATED_CPUS,
                    TRY_DISABLE_CPUS, early, is_primary, ret, state, cpus,
                    linux, vcpu, host, deact_fails >>

\* The errno PerCpu::activate_vmm() can fail with after its fetch_add:
\* hvm.delete()? (paging error other than NoMemory: EFAULT) and, on VMX,
\* Vcpu::activate_vmm() when VMLAUNCH falls through (EIO).  The SVM
\* activate_vmm() does not return.
ActivateErrs == IF vendor = "vmx" THEN {EFAULT, EIO} ELSE {EFAULT}

\* PerCpu::activate_vmm(): ACTIVATED_CPUS.fetch_add(1), drop the temporary
\* mapping, enter the guest.  On success the loader's call continues in
\* guest mode at linux.rip with RAX = 0.
ActivateVmm(c) ==
    /\ pc[c] = "activate"
    /\ ACTIVATED_CPUS' = ACTIVATED_CPUS + 1
    /\ \/ /\ pc' = [pc EXCEPT ![c] = "guest"]
          /\ ret' = [ret EXCEPT ![c] = << 0 >>]
          /\ err' = err
       \/ /\ \E num \in ActivateErrs : MainErr(c, num)
          /\ ret' = ret
    /\ UNCHANGED << mem, vendor, online_cpus, ENTERED_CPUS, INITED_CPUS,
                    INIT_EARLY_OK, INIT_LATE_OK, ERROR_NUM, TRY_DISABLE_CPUS,
                    early, is_primary, state, cpus, linux, vcpu, host,
                    deact_fails >>

\* entry(): if let Err(e) = main(..) { ERROR_NUM.store(e.code()) }
EntryStoreErr(c) ==
    /\ pc[c] = "fail"
    /\ ERROR_NUM' = HvErrorCode(err[c])
    /\ pc' = [pc EXCEPT ![c] = "ret"]
    /\ UNCHANGED << mem, vendor, online_cpus, ENTERED_CPUS, INITED_CPUS,
                    INIT_EARLY_OK, INIT_LATE_OK, ACTIVATED_CPUS,
                    TRY_DISABLE_CPUS, early, is_primary, err, ret, state,
                    cpus, linux, vcpu, host, deact_fails >>

\* entry(): let code = ERROR_NUM.load(); code
EntryReturn(c) ==
    /\ pc[c] = "ret"
    /\ ret' = [ret EXCEPT ![c] = << ERROR_NUM >>]
    /\ pc' = [pc EXCEPT ![c] = "returned"]
    /\ UNCHANGED << mem, vendor, online_cpus, ENTERED_CPUS, INITED_CPUS,
                    INIT_EARLY_OK, INIT_LATE_OK, ERROR_NUM, ACTIVATED_CPUS,
                    TRY_DISABLE_CPUS, early, is_primary, err, state, cpus,
                    linux, vcpu, host, deact_fails >>

\* ------------------------------------------------ vendor vCPU operations
\* Variant of advance_rip() that adds the length twice.
advance_rip_twice(v, instr_len) ==
    [v EXCEPT !.rip = v.rip + instr_len + instr_len]

\* svm Vcpu::advance_rip(instr_len): vmcb.save.rip += instr_len.
advance_rip(v, instr_len) == [v EXCEPT !.rip = v.rip + instr_len]

\* Variant of set_return_val() that leaves RAX alone.
set_return_val_dropped(v, ret_val) == v

\* VcpuAccessGuestState::set_return_val(): regs_mut().rax = ret_val.
\* RAX is kept as the signed reading of its 64 bits, so `code as usize` of
\* a negative errno is that errno.
set_return_val(v, ret_val) == [v EXCEPT !.rax = ret_val]

\* Vcpu::guest_is_privileged(): SVM vmcb.save.cpl == 0, VMX CS.DPL == 0.
guest_is_privileged(v) == v.cpl = 0

\* Vcpu::in_hypercall(): the exit code / exit reason is VMMCALL / VMCALL.
in_hypercall(v) == v.exit.reason = "vmcall"

\* vmx Vcpu::inject_fault(): Vmcs::inject_interrupt(#GP, Some(0)).
VmxInjectFault(v) == [v EXCEPT !.inject = "gp0"]

\* vmx Vcpu::exit(): load_vmcs_guest() reads the guest RIP back into the
\* Linux context, then VMCLEAR and VMXOFF.
VmxVcpuExit(lx, v) == [lx EXCEPT !.rip = v.rip]

\* svm Vcpu::exit(): load_vmcb_guest() has an empty body, the Linux
\* context keeps what PerCpu::init() captured.
SvmVcpuExit(lx, v) == lx

VcpuExit(lx, v) ==
    IF vendor = "vmx" THEN VmxVcpuExit(lx, v) ELSE SvmVcpuExit(lx, v)

\* return_to_linux(): GPRs from the mirror, then `ret` to linux.rip on the
\* Linux stack.  `by` records which caller of deactivate_vmm got here.
return_to_linux(lx, v, by) ==
    [rip |-> lx.rip, rax |-> v.rax, rbx |-> v.rbx, by |-> by]

\* Variant of try_from() that accepts every code.
KnownHyperCall_any(code) == TRUE

\* HyperCallCode::try_from(code) succeeds.
KnownHyperCall(code) == code = 0

\* HyperCallCode::is_privileged(): bits 30..32 of the code are 0.
is_privileged(code) == (code \div 1073741824) % 4 = 0

\* Variant of the loop condition that never lets the loop end.
TryBelowAlways(try, n) == TRUE

\* The loop condition of hypervisor_disable():
\* TRY_DISABLE_CPUS.load() < cpus, cpus being ACTIVATED_CPUS `as usize`
\* (a negative count reads as a number above every counter value).
TryBelow(try, n) == IF n < 0 THEN TRUE ELSE try < n

\* The errno PerCpu::deactivate_vmm() can fail with after its fetch_add:
\* hvm.insert()? (ENOMEM) and, on VMX, vcpu.exit()? (VMCLEAR/VMXOFF: EIO).
DeactivateErrs == IF vendor = "vmx" THEN {ENOMEM, EIO} ELSE {ENOMEM}

\* PerCpu::deactivate_vmm(ret_code) and deactivate_vmm_common():
\* ACTIVATED_CPUS.fetch_add(-1); set_return_val; hvm.insert()?;
\* vcpu.exit(&mut linux)?; linux.restore(); state = HvDisabled;
\* return_to_linux.  On Err the hypercall layer hands the errno to the
\* guest in RAX and the guest is resumed; the panic handler spins.
deactivate_vmm(c, ret_code, by) ==
    /\ ACTIVATED_CPUS' = ACTIVATED_CPUS - 1
    /\ \/ LET v == set_return_val(vcpu[c], ret_code)
              lx == VcpuExit(linux[c], v)
          IN /\ vcpu' = [vcpu EXCEPT ![c] = v]
             /\ linux' = [linux EXCEPT ![c] = lx]
             /\ state' = [state EXCEPT ![c] = "HvDisabled"]
             /\ host' = [host EXCEPT ![c] = << return_to_linux(lx, v, by) >>]
             /\ pc' = [pc EXCEPT ![c] = "linux"]
             /\ deact_fails' = deact_fails
       \/ /\ deact_fails < MaxDeactFail
          /\ deact_fails' = deact_fails + 1
          /\ \E num \in DeactivateErrs :
                LET v == set_return_val(vcpu[c], ret_code)
                    lx == IF num = EIO THEN VcpuExit(linux[c], v) ELSE linux[c]
                IN /\ linux' = [linux EXCEPT ![c] = lx]
                   /\ IF by = "hypercall"
                      THEN /\ vcpu' = [vcpu EXCEPT ![c] =
                                          set_return_val(v, HvErrorCode(num))]
                           /\ pc' = [pc EXCEPT ![c] = "guest"]
                      ELSE /\ vcpu' = [vcpu EXCEPT ![c] = v]
                           /\ pc' = [pc EXCEPT ![c] = "halted"]
          /\ UNCHANGED << state, host >>

\* ------------------------------------- VM exit, hypercall layer, panic path
\* Whether HyperCall::hypercall() refuses the call with cpu_data.fault():
\* privileged guest with a non-privileged code, or the reverse.
PrivilegeMismatch(v, code) ==
    IF guest_is_privileged(v) THEN ~is_privileged(code) ELSE is_privileged(code)

\* The guest runs VMCALL/VMMCALL at `grip` with RAX = code, RBX = rbx at
\* privilege level cpl: vmexit_handler() -> handle_hypercall() ->
\* HyperCall::hypercall(), up to hypervisor_disable()'s load of
\* ACTIVATED_CPUS.  A pending injected event was delivered at VM entry.
HypercallExit(c, grip, code, rbx, cpl) ==
    /\ pc[c] = "guest"
    /\    LET v0 == [vcpu[c] EXCEPT
                        !.rip = grip, !.rax = code, !.rbx = rbx, !.rcx = 0,
                        !.rdx = 0, !.cpl = cpl, !.osxsave = FALSE,
                        !.inject = "none",
                        !.exit = [reason |-> "vmcall", guest_rip |-> grip]]
              v == advance_rip(v0, VM_EXIT_LEN_HYPERCALL)
          IN  IF ~KnownHyperCall(code)
              THEN /\ vcpu' = [vcpu EXCEPT ![c] = v]
                   /\ UNCHANGED << pc, cpus >>
              ELSE IF PrivilegeMismatch(v, code)
              THEN IF vendor = "vmx"
                   THEN /\ vcpu' = [vcpu EXCEPT ![c] = VmxInjectFault(v)]
                        /\ UNCHANGED << pc, cpus >>
                   ELSE /\ vcpu' = [vcpu EXCEPT ![c] = v]
                        /\ pc' = [pc EXCEPT ![c] = "panic"]
                        /\ cpus' = cpus
              ELSE /\ vcpu' = [vcpu EXCEPT ![c] = v]
                   /\ cpus' = [cpus EXCEPT ![c] = ACTIVATED_CPUS]
                   /\ pc' = [pc EXCEPT ![c] = "dis_inc"]
    /\ UNCHANGED << mem, vendor, online_cpus, ENTERED_CPUS, INITED_CPUS,
                    INIT_EARLY_OK, INIT_LATE_OK, ERROR_NUM, ACTIVATED_CPUS,
                    TRY_DISABLE_CPUS, early, is_primary, err, ret, state,
                    linux, host, deact_fails >>

\* What the guest's registers hold when it traps is up to the guest.
VmExitHypercall(c) ==
    \E grip \in GuestRips, code \in HypercallCodes,
       rbx \in GuestRbxs, cpl \in GuestCpls :
       HypercallExit(c, grip, code, rbx, cpl)

\* hypervisor_disable(): TRY_DISABLE_CPUS.fetch_add(1).
DisableInc(c) ==
    /\ pc[c] = "dis_inc"
    /\ TRY_DISABLE_CPUS' = TRY_DISABLE_CPUS + 1
    /\ pc' = [pc EXCEPT ![c] = "dis_wait"]
    /\ UNCHANGED << mem, vendor, online_cpus, ENTERED_CPUS, INITED_CPUS,
                    INIT_EARLY_OK, INIT_LATE_OK, ERROR_NUM, ACTIVATED_CPUS,
                    early, is_primary, err, ret, state, cpus, linux, vcpu,
                    host, deact_fails >>

\* hypervisor_disable(): the spin loop is left, then deactivate_vmm(0)?.
DisableDeactivate(c) ==
    /\ pc[c] = "dis_wait"
    /\ ~TryBelow(TRY_DISABLE_CPUS, cpus[c])
    /\ deactivate_vmm(c, 0, "hypercall")
    /\ UNCHANGED << mem, vendor, online_cpus, ENTERED_CPUS, INITED_CPUS,
                    INIT_EARLY_OK, INIT_LATE_OK, ERROR_NUM, TRY_DISABLE_CPUS,
                    early, is_primary, err, ret, cpus >>

\* Variant of the return code that ignores in_hypercall().
PanicRetCode_zero(c) == 0

\* try_handle_panic(): the return code handed to Linux.
PanicRetCode(c) ==
    IF state[c] # "HvDisabled" /\ in_hypercall(vcpu[c])
    THEN HvErrorCode(EIO) ELSE 0

\* panic(): try_handle_panic(), then loop {}.
Panic(c) ==
    /\ pc[c] = "panic"
    /\ IF state[c] = "HvEnabled"
       THEN deactivate_vmm(c, PanicRetCode(c), "panic")
       ELSE /\ pc' = [pc EXCEPT ![c] = "halted"]
            /\ UNCHANGED << ACTIVATED_CPUS, vcpu, linux, state, host,
                            deact_fails >>
    /\ UNCHANGED << mem, vendor, online_cpus, ENTERED_CPUS, INITED_CPUS,
                    INIT_EARLY_OK, INIT_LATE_OK, ERROR_NUM, TRY_DISABLE_CPUS,
                    early, is_primary, err, ret, cpus >>

\* ------------------------------------------------------------ specification
Step(c) ==
    \/ MainEnter(c)
    \/ WaitEntered(c)
    \/ PrimaryInitEarlyStage(c)
    \/ PrimaryInitEarlyPublish(c)
    \/ WaitEarly(c)
    \/ PerCpuInit(c)
    \/ WaitInited(c)
    \/ PrimaryInitLate(c)
    \/ WaitLate(c)
    \/ ActivateVmm(c)
    \/ EntryStoreErr(c)
    \/ EntryReturn(c)
    \/ DisableInc(c)
    \/ DisableDeactivate(c)
    \/ Panic(c)

Next == \E c \in CPUS : Step(c) \/ VmExitHypercall(c)

Spec == Init /\ [][Next]_vars

\* Every CPU keeps executing hypervisor code; when the guest issues a
\* hypercall is up to the guest.
FairSpec == Spec /\ \A c \in CPUS : WF_vars(Step(c))

\* The disable scenario on a fully populated machine: the state main() leaves
\* behind when all max_cpus CPUs are online and every one of them has gone
\* through ActivateVmm successfully (the guest has not trapped yet).
DisableInit ==
    /\ vendor \in {"vmx", "svm"}
    /\ online_cpus = max_cpus
    /\ ENTERED_CPUS = max_cpus
    /\ INITED_CPUS = max_cpus
    /\ INIT_EARLY_OK = 1
    /\ INIT_LATE_OK = 1
    /\ ERROR_NUM = 0
    /\ ACTIVATED_CPUS = max_cpus
    /\ TRY_DISABLE_CPUS = 0
    /\ early = PrimaryEarlyStages
    /\ pc = [c \in CPUS |-> "guest"]
    /\ \E p \in CPUS : is_primary = [c \in CPUS |-> c = p]
    /\ err = [c \in CPUS |-> 0]
    /\ ret = [c \in CPUS |-> << 0 >>]
    /\ state = [c \in CPUS |-> "HvEnabled"]
    /\ cpus = [c \in CPUS |-> 0]
    /\ \E lrip \in LoaderRips :
          /\ linux = [c \in CPUS |-> [rip |-> lrip]]
          /\ vcpu = [c \in CPUS |-> VcpuNew([rip |-> lrip])]
    /\ host = [c \in CPUS |-> << >>]
    /\ deact_fails = 0
    /\ mem = PageTableNew("host")

HandlerStep(c) == DisableInc(c) \/ DisableDeactivate(c) \/ Panic(c)

DisableNext == \E c \in CPUS : VmExitHypercall(c) \/ HandlerStep(c)

\* Hypervisor code keeps running on every CPU; the guests trap when they
\* choose to.
DisableSpec ==
    DisableInit /\ [][DisableNext]_vars /\ \A c \in CPUS : WF_vars(HandlerStep(c))

\* ------------------------------------------------------------- CPUID exits
\* A 32-bit register value is the set of its one bits (bit i is set iff
\* i is in the set): leaf numbers and feature words use bit 31.
CPUID_LEN == 32

\* The bits of n, 0 <= n < 2^31.
Bits(n) == {i \in 0 .. (CPUID_LEN - 2) : (n \div (2 ^ i)) % 2 = 1}

\* CpuIdEax: FeatureInfo = 0x1, HypervisorInfo = 0x4000_0000,
\* HypervisorFeatures = 0x4000_0001, AmdFeatureInfo = 0x8000_0001.
FeatureInfo == {0}

HypervisorInfo == {30}

HypervisorFeatures == {0, 30}

AmdFeatureInfo == {0, 31}

\* FeatureInfoFlags: the bit of ECX each flag names.
FeatureInfoFlags_SVM == 2

FeatureInfoFlags_VMX == 5

FeatureInfoFlags_OSXSAVE == 27

FeatureInfoFlags_HYPERVISOR == 31

\* FeatureInfoFlags::all(): every bit of the feature word is a flag.
FeatureInfoFlags_all == 0 .. (CPUID_LEN - 1)

\* FeatureInfoFlags::from_bits_truncate(bits): bits that name no flag are
\* dropped.
from_bits_truncate(bits) == bits \cap FeatureInfoFlags_all

\* "RVMRVMRVMRVM" read as [u32; 3] on a little-endian machine:
\* "RVMR" = 0x524D5652, "VMRV" = 0x56524D56, "MRVM" = 0x4D56524D.
signature == << Bits(1380800082), Bits(1448234326), Bits(1297502797) >>

\* Variant of the FeatureInfo branch that leaves the VMX flag alone.
SpoofFeatureInfoKeepVmx(ecx, osxsave) ==
    LET flags0 == from_bits_truncate(ecx)
        flags1 == IF osxsave THEN flags0 \cup {FeatureInfoFlags_OSXSAVE}
                  ELSE flags0
    IN  flags1 \cup {FeatureInfoFlags_HYPERVISOR}

\* handle_cpuid(), function == FeatureInfo: OSXSAVE is inserted when the
\* guest's CR4 has it, VMX is removed, HYPERVISOR is inserted.
SpoofFeatureInfo(ecx, osxsave) ==
    LET flags0 == from_bits_truncate(ecx)
        flags1 == IF osxsave THEN flags0 \cup {FeatureInfoFlags_OSXSAVE}
                  ELSE flags0
    IN  (flags1 \ {FeatureInfoFlags_VMX}) \cup {FeatureInfoFlags_HYPERVISOR}

\* handle_cpuid(), function == AmdFeatureInfo: SVM is removed.
SpoofAmdFeatureInfo(ecx) == from_bits_truncate(ecx) \ {FeatureInfoFlags_SVM}

\* The two synthetic leaves, common to both handlers.
HypervisorLeaf(v) ==
    IF v.rax = HypervisorInfo
    THEN [v EXCEPT !.rax = HypervisorFeatures, !.rbx = signature[1],
                   !.rcx = signature[2], !.rdx = signature[3]]
    ELSE [v EXCEPT !.rax = {}, !.rbx = {}, !.rcx = {}, !.rdx = {}]

\* Variant of handle_cpuid() that zeroes EDX of a native leaf.
handle_cpuid_no_edx(v, res) ==
    IF v.rax \in {HypervisorInfo, HypervisorFeatures}
    THEN HypervisorLeaf(v)
    ELSE [v EXCEPT !.rax = res.eax, !.rbx = res.ebx, !.rdx = {},
                   !.rcx = IF v.rax = FeatureInfo
                           THEN SpoofFeatureInfo(res.ecx, v.osxsave)
                           ELSE IF v.rax = AmdFeatureInfo
                           THEN SpoofAmdFeatureInfo(res.ecx)
                           ELSE res.ecx]

\* vmm.rs VmExit::handle_cpuid() up to advance_rip, the handler of the SVM
\* build; `res` is what the native CPUID returns for (rax, rcx).
handle_cpuid(v, res) ==
    IF v.rax \in {HypervisorInfo, HypervisorFeatures}
    THEN HypervisorLeaf(v)
    ELSE [v EXCEPT !.rax = res.eax, !.rbx = res.ebx, !.rdx = res.edx,
                   !.rcx = IF v.rax = FeatureInfo
                           THEN SpoofFeatureInfo(res.ecx, v.osxsave)
                           ELSE IF v.rax = AmdFeatureInfo
                           THEN SpoofAmdFeatureInfo(res.ecx)
                           ELSE res.ecx]

\* vmexit.rs VmExit::handle_cpuid() up to advance_rip, the handler of the VMX
\* build: ECX of every native leaf goes through from_bits_truncate.
VmxHandleCpuid(v, res) ==
    IF v.rax \in {HypervisorInfo, HypervisorFeatures}
    THEN HypervisorLeaf(v)
    ELSE [v EXCEPT !.rax = res.eax, !.rbx = res.ebx, !.rdx = res.edx,
                   !.rcx = IF v.rax = FeatureInfo
                           THEN SpoofFeatureInfo(res.ecx, v.osxsave)
                           ELSE IF v.rax = AmdFeatureInfo
                           THEN SpoofAmdFeatureInfo(res.ecx)
                           ELSE from_bits_truncate(res.ecx)]

\* ------------------------------------------------------ VM-exit dispatch
VM_EXIT_LEN_CPUID == 2

VM_EXIT_LEN_RDMSR == 2

VM_EXIT_LEN_WRMSR == 2

ENOSYS == 38

\* HvResult of a handler: Ok(()), Err(num), or the call panicked.
Ok == [kind |-> "ok", num |-> 0]

Err(num) == [kind |-> "err", num |-> num]

Panicked == [kind |-> "panic", num |-> 0]

\* What the guest was doing when it exited: registers, privilege level,
\* CR4.OSXSAVE and the exit information the hardware recorded.
GuestAtExit(grip, rax, rbx, rcx, rdx, cpl, osxsave, exit) ==
    [rip |-> grip, rax |-> rax, rbx |-> rbx, rcx |-> rcx, rdx |-> rdx,
     cpl |-> cpl, osxsave |-> osxsave, inject |-> "none", exit |-> exit]

\* The instruction length the VMCS reports for the exiting instruction.
exit_instruction_length(reason) ==
    CASE reason = "cpuid" -> VM_EXIT_LEN_CPUID
      [] reason = "rdmsr" -> VM_EXIT_LEN_RDMSR
      [] reason = "wrmsr" -> VM_EXIT_LEN_WRMSR
      [] reason = "vmcall" -> VM_EXIT_LEN_HYPERCALL
      [] OTHER -> 0

\* libvmm VmExitInfo::advance_rip(): guest RIP := guest_rip +
\* exit_instruction_length.
VmExitInfo_advance_rip(v) ==
    [v EXCEPT !.rip = v.exit.guest_rip + exit_instruction_length(v.exit.reason)]

\* Variant of svm Vcpu::inject_fault() that queues #GP(0) and returns Ok.
SvmInjectFaultGp(v) == [res |-> Ok, v |-> [v EXCEPT !.inject = "gp0"]]

\* svm Vcpu::inject_fault(): todo!().
SvmInjectFault(v) == [res |-> Panicked, v |-> v]

\* vmx handle_msr_read() / vmm.rs handle_msr_read(): rax = 0, rdx = 0.
MsrReadStub(v) == [v EXCEPT !.rax = 0, !.rdx = 0]

\* vmx VmExit::handle_exit(): entry_failure first, then the match on
\* exit_reason.  "excp" / "nmi" are EXCEPTION_NMI, "npf" is EPT_VIOLATION;
\* TRIPLE_FAULT and every other reason take the default arm.
VmxHandleExit(v, res) ==
    LET reason == v.exit.reason
    IN  CASE reason = "entry_fail" -> [res |-> Err(EIO), v |-> v]
          [] reason \in {"excp", "nmi"} -> [res |-> Ok, v |-> v]
          [] reason = "cpuid" ->
                [res |-> Ok, v |-> VmExitInfo_advance_rip(VmxHandleCpuid(v, res))]
          [] reason = "rdmsr" ->
                [res |-> Ok, v |-> VmExitInfo_advance_rip(MsrReadStub(v))]
          [] reason = "wrmsr" -> [res |-> Ok, v |-> VmExitInfo_advance_rip(v)]
          [] reason = "npf" -> [res |-> Err(ENOSYS), v |-> v]
          [] OTHER -> [res |-> Err(ENOSYS), v |-> v]

\* svm VmExit::handle_exit(): "entry_fail" is VMEXIT_INVALID, "excp" EXCP,
\* "npf" NPF, "rdmsr" / "wrmsr" MSR with exit_info_1 0 / 1, "triple"
\* SHUTDOWN.
SvmHandleExit(v, res) ==
    LET reason == v.exit.reason
    IN  CASE reason = "entry_fail" -> [res |-> Panicked, v |-> v]
          [] reason \in {"excp", "nmi"} -> [res |-> Ok, v |-> v]
          [] reason = "cpuid" ->
                [res |-> Ok,
                 v |-> advance_rip(handle_cpuid(v, res), VM_EXIT_LEN_CPUID)]
          [] reason = "rdmsr" ->
                [res |-> Ok, v |-> advance_rip(MsrReadStub(v), VM_EXIT_LEN_RDMSR)]
          [] reason = "wrmsr" ->
                [res |-> Ok, v |-> advance_rip(v, VM_EXIT_LEN_WRMSR)]
          [] reason = "npf" -> [res |-> Err(ENOSYS), v |-> v]
          [] reason = "triple" -> SvmInjectFault(v)
          [] OTHER -> [res |-> Err(ENOSYS), v |-> v]

\* Variant of the VMX vmexit_handler() that answers an Err with
\* inject_fault() and resumes the guest.
VmxVmexitHandlerFaults(v, res) ==
    LET out == VmxHandleExit(v, res)
    IN  IF out.res.kind = "err"
        THEN [res |-> Ok, v |-> VmxInjectFault(out.v)]
        ELSE out

\* vmexit.rs vmexit_handler(), the handler the VMX vCPU jumps to:
\* VmExit::new().handle_exit().unwrap().
VmxVmexitHandler(v, res) ==
    LET out == VmxHandleExit(v, res)
    IN  IF out.res.kind = "err"
        THEN [res |-> Panicked, v |-> out.v]
        ELSE out

\* vmm.rs vmexit_handler(), the handler the SVM vCPU jumps to: on Err,
\* cpu_data.fault().unwrap(), fault() being vcpu.inject_fault()?.
SvmVmexitHandler(v, res) ==
    LET out == SvmHandleExit(v, res)
    IN  IF out.res.kind = "err"
        THEN LET f == SvmInjectFault(out.v)
             IN  IF f.res.kind = "ok" THEN f
                 ELSE [res |-> Panicked, v |-> f.v]
        ELSE out

vmexit_handler(v, res) ==
    IF vendor = "vmx" THEN VmxVmexitHandler(v, res) ELSE SvmVmexitHandler(v, res)

\* Inputs of a CPUID exit: the leaf in EAX and what the native CPUID returns.
CpuidFunctions ==
    {{}, {0, 1, 2}, FeatureInfo, HypervisorInfo, HypervisorFeatures,
     AmdFeatureInfo}

NativeEcxBits == {0, FeatureInfoFlags_SVM, FeatureInfoFlags_VMX,
                  FeatureInfoFlags_OSXSAVE, FeatureInfoFlags_HYPERVISOR}

\* CR4.OSXSAVE while the hypervisor runs: the VMX vCPU sets it when the CPU
\* has XSAVE, the SVM vCPU writes HOST_CR4, which has PAE only.
HostCr4Osxsave == IF vendor = "vmx" THEN BOOLEAN ELSE {FALSE}

\* What the native CPUID can return; bit 27 of leaf 1's ECX mirrors the
\* CR4.OSXSAVE the instruction is executed under.
NativeResults ==
    {[eax |-> {1, 31}, ebx |-> {3, 11}, edx |-> {0, 25, 31},
      ecx |-> IF h THEN e \cup {FeatureInfoFlags_OSXSAVE} ELSE e] :
        e \in SUBSET (NativeEcxBits \ {FeatureInfoFlags_OSXSAVE}),
        h \in HostCr4Osxsave}

NoCpuid == [eax |-> {}, ebx |-> {}, ecx |-> {}, edx |-> {}]

\* Exits that carry no instruction to emulate.
EventReasons == {"excp", "nmi", "npf", "triple", "entry_fail", "other"}

\* The exit handler has run on CPU c with outcome `out`: the guest is
\* resumed unless the handler panicked.
ExitDone(c, out) ==
    /\ vcpu' = [vcpu EXCEPT ![c] = out.v]
    /\ pc' = [pc EXCEPT ![c] = IF out.res.kind = "panic" THEN "panic"
                                ELSE "guest"]
    /\ UNCHANGED << mem, vendor, online_cpus, ENTERED_CPUS, INITED_CPUS,
                    INIT_EARLY_OK, INIT_LATE_OK, ERROR_NUM, ACTIVATED_CPUS,
                    TRY_DISABLE_CPUS, early, is_primary, err, ret, state,
                    cpus, linux, host, deact_fails >>

\* The guest runs CPUID with EAX = function, ECX = 0.
VmExitCpuid(c) ==
    /\ pc[c] = "guest"
    /\ \E grip \in GuestRips, function \in CpuidFunctions,
          res \in NativeResults, osxsave \in BOOLEAN :
          ExitDone(c, vmexit_handler(
              GuestAtExit(grip, function, {}, {}, {}, 0, osxsave,
                          [reason |-> "cpuid", guest_rip |-> grip,
                           function |-> function, res |-> res]),
              res))

\* The guest runs RDMSR or WRMSR.
VmExitMsr(c) ==
    /\ pc[c] = "guest"
    /\ \E grip \in GuestRips, reason \in {"rdmsr", "wrmsr"},
          val \in GuestRbxs :
          ExitDone(c, vmexit_handler(
              GuestAtExit(grip, val, 0, 0, val, 0, FALSE,
                          [reason |-> reason, guest_rip |-> grip]),
              NoCpuid))

\* An exception, NMI, nested page fault, triple fault, failed VM entry or
\* an exit reason without a handler.
VmExitEvent(c) ==
    /\ pc[c] = "guest"
    /\ \E grip \in GuestRips, reason \in EventReasons, cpl \in GuestCpls :
          ExitDone(c, vmexit_handler(
              GuestAtExit(grip, 0, 0, 0, 0, cpl, FALSE,
                          [reason |-> reason, guest_rip |-> grip]),
              NoCpuid))

\* Number of CPUs the exit-handling specification starts in guest mode.
ExitCpus == 1

\* The state main() leaves behind when ExitCpus CPUs are online and each
\* of them went through ActivateVmm (the guest has not trapped yet).
ExitInit ==
    /\ vendor \in {"vmx", "svm"}
    /\ online_cpus = ExitCpus
    /\ ENTERED_CPUS = ExitCpus
    /\ INITED_CPUS = ExitCpus
    /\ INIT_EARLY_OK = 1
    /\ INIT_LATE_OK = 1
    /\ ERROR_NUM = 0
    /\ ACTIVATED_CPUS = ExitCpus
    /\ TRY_DISABLE_CPUS = 0
    /\ early = PrimaryEarlyStages
    /\ pc = [c \in CPUS |-> IF c < ExitCpus THEN "guest" ELSE "offline"]
    /\ \E p \in 0 .. (ExitCpus - 1) : is_primary = [c \in CPUS |-> c = p]
    /\ err = [c \in CPUS |-> 0]
    /\ ret = [c \in CPUS |-> IF c < ExitCpus THEN << 0 >> ELSE << >>]
    /\ state = [c \in CPUS |-> IF c < ExitCpus THEN "HvEnabled"
                               ELSE "HvDisabled"]
    /\ cpus = [c \in CPUS |-> 0]
    /\ \E lrip \in LoaderRips :
          /\ linux = [c \in CPUS |-> IF c < ExitCpus THEN [rip |-> lrip]
                                     ELSE [rip |-> 0]]
          /\ vcpu = [c \in CPUS |->
                        IF c < ExitCpus THEN VcpuNew([rip |-> lrip])
                        ELSE [rip |-> 0, rax |-> 0, rbx |-> 0, rcx |-> 0,
                              rdx |-> 0, cpl |-> 0, osxsave |-> FALSE,
                              inject |-> "none", exit |-> NoExit]]
    /\ host = [c \in CPUS |-> << >>]
    /\ deact_fails = 0
    /\ mem = PageTableNew("host")

ExitNext ==
    \E c \in CPUS :
        \/ VmExitCpuid(c)
        \/ VmExitMsr(c)
        \/ VmExitEvent(c)
        \/ VmExitHypercall(c)
        \/ HandlerStep(c)

ExitSpec == ExitInit /\ [][ExitNext]_vars

\* ------------------------------------------------- page-table operations
\* Regions handed to map() / unmap(): one page of each size at aligned
\* addresses, through an offset mapper.
MaxPageOps == 3

PageVaddrs == {0, Size4K, Size2M, Size1G}

PagePaddrs == {0, Size1G}

PageFlags ==
    {{}, {"READ", "WRITE"}, {"READ", "WRITE", "EXECUTE"},
     {"READ", "NO_HUGEPAGES"}}

PageRanges ==
    {r \in [start : PageVaddrs, size : PageSizes] : is_aligned(r.size, r.start)}

\* Regions of one aligned page, and regions of 2 MiB + 4 KiB that start
\* 4 KiB below a 2 MiB boundary: one map() can split into a 4 KiB and a 2 MiB
\* page, one whose physical address is 4 KiB off, one without huge pages.
PageRegions ==
    {r \in [start : PageVaddrs, paddr : PagePaddrs, size : PageSizes,
            flags : PageFlags] :
        /\ is_aligned(r.size, r.start)
        /\ is_aligned(r.size, r.paddr)
        /\ "NO_HUGEPAGES" \in r.flags => r.size = Size4K}
    \cup
    {[start |-> Size2M - Size4K, paddr |-> Size2M - Size4K,
      size |-> Size2M + Size4K, flags |-> {"READ", "WRITE"}],
     [start |-> Size2M - Size4K, paddr |-> Size2M,
      size |-> Size2M + Size4K, flags |-> {"READ", "WRITE"}],
     [start |-> Size2M - Size4K, paddr |-> Size2M - Size4K,
      size |-> Size2M + Size4K, flags |-> {"READ", "NO_HUGEPAGES"}]}

\* GenericPageTable::map(region) on the table.
PageMap ==
    /\ mem.ops < MaxPageOps
    /\ mem.last.res # "panic"
    /\ \E region \in PageRegions :
          LET r == MapLoop([mem EXCEPT !.log = NoLog], region, region.start,
                           region.size)
          IN  mem' = [r.pt EXCEPT !.ops = @ + 1,
                                  !.last = [op |-> "map", res |-> r.res,
                                            start |-> region.start,
                                            size |-> region.size]]
    /\ UNCHANGED << vendor, online_cpus, ENTERED_CPUS, INITED_CPUS,
                    INIT_EARLY_OK, INIT_LATE_OK, ERROR_NUM, ACTIVATED_CPUS,
                    TRY_DISABLE_CPUS, early, pc, is_primary, err, ret, state,
                    cpus, linux, vcpu, host, deact_fails >>

\* GenericPageTable::unmap(region) on the table.
PageUnmap ==
    /\ mem.ops < MaxPageOps
    /\ mem.last.res # "panic"
    /\ \E range \in PageRanges :
          LET r == UnmapLoop([mem EXCEPT !.log = NoLog], range.start,
                             range.size)
          IN  mem' = [r.pt EXCEPT !.ops = @ + 1,
                                  !.last = [op |-> "unmap", res |-> r.res,
                                            start |-> range.start,
                                            size |-> range.size]]
    /\ UNCHANGED << vendor, online_cpus, ENTERED_CPUS, INITED_CPUS,
                    INIT_EARLY_OK, INIT_LATE_OK, ERROR_NUM, ACTIVATED_CPUS,
                    TRY_DISABLE_CPUS, early, pc, is_primary, err, ret, state,
                    cpus, linux, vcpu, host, deact_fails >>

\* A fresh host page table, or the guest-physical table of the build: EPT
\* on VMX, NPT on SVM.  No CPU has entered yet.
PageInit ==
    /\ vendor \in {"vmx", "svm"}
    /\ online_cpus = 1
    /\ ENTERED_CPUS = 0
    /\ INITED_CPUS = 0
    /\ INIT_EARLY_OK = 0
    /\ INIT_LATE_OK = 0
    /\ ERROR_NUM = 0
    /\ ACTIVATED_CPUS = 0
    /\ TRY_DISABLE_CPUS = 0
    /\ early = 0
    /\ pc = [c \in CPUS |-> IF c < 1 THEN "start" ELSE "offline"]
    /\ is_primary = [c \in CPUS |-> FALSE]
    /\ err = [c \in CPUS |-> 0]
    /\ ret = [c \in CPUS |-> << >>]
    /\ state = [c \in CPUS |-> "HvDisabled"]
    /\ cpus = [c \in CPUS |-> 0]
    /\ linux = [c \in CPUS |-> [rip |-> 0]]
    /\ vcpu = [c \in CPUS |-> [rip |-> 0, rax |-> 0, rbx |-> 0, rcx |-> 0,
                               rdx |-> 0, cpl |-> 0, osxsave |-> FALSE,
                               inject |-> "none", exit |-> NoExit]]
    /\ host = [c \in CPUS |-> << >>]
    /\ deact_fails = 0
    /\ \E kind \in {"host", IF vendor = "vmx" THEN "ept" ELSE "npt"} :
          mem = PageTableNew(kind)

PageNext == PageMap \/ PageUnmap

PageSpec == PageInit /\ [][PageNext]_vars

\* Variant of clone_from() that copies nothing into the new root table.
clone_from_empty(pt) ==
    [pt EXCEPT !.nframes = pt.nframes + 1, !.clone = pt.nframes,
               !.clone_lock = pt.clonee_lock + 1]

\* Level4PageTable::clone_from(src): a new root frame, then the ENTRY_COUNT
\* entries of src's level-4 table copied into it.
clone_from(pt) ==
    LET dst == pt.nframes
        src_p4 == {l \in DOMAIN pt.tables : l[1] = pt.root}
    IN  [pt EXCEPT !.tables =
                      [l \in DOMAIN pt.tables
                                \cup {<< dst, k[2] >> : k \in src_p4} |->
                          IF l[1] = dst THEN pt.tables[<< pt.root, l[2] >>]
                          ELSE pt.tables[l]],
                   !.nframes = pt.nframes + 1,
                   !.clone = dst,
                   !.clone_lock = pt.clonee_lock + 1]

\* Variant of clone() that keeps the Mutex clone_from() created.
clone_own_lock(pt) == clone_from(pt)

\* Level4PageTable::clone(): clone_from(self), then the clone is pointed at
\* self's Mutex.
clone(pt) == [clone_from(pt) EXCEPT !.clone_lock = pt.clonee_lock]

\* The clone, as a page table of its own.
Clone(pt) == [pt EXCEPT !.root = pt.clone]

\* GenericPageTable::clone() of the table; Level4PageTableImmut::new()
\* panics when no frame is left for the root.
PageClone ==
    /\ mem.ops < MaxPageOps
    /\ mem.last.res # "panic"
    /\ mem.clone = 0
    /\ mem' = [(IF mem.nframes >= MaxFrames THEN mem ELSE clone(mem))
                  EXCEPT !.ops = @ + 1,
                         !.log = NoLog,
                         !.last = [op |-> "clone",
                                   res |-> IF mem.nframes >= MaxFrames
                                           THEN "panic" ELSE "Ok",
                                   start |-> 0, size |-> 0]]
    /\ UNCHANGED << vendor, online_cpus, ENTERED_CPUS, INITED_CPUS,
                    INIT_EARLY_OK, INIT_LATE_OK, ERROR_NUM, ACTIVATED_CPUS,
                    TRY_DISABLE_CPUS, early, pc, is_primary, err, ret, state,
                    cpus, linux, vcpu, host, deact_fails >>

CloneNext == PageMap \/ PageUnmap \/ PageClone

\* A page table that is mapped into, unmapped from, and cloned once.
CloneSpec == PageInit /\ [][CloneNext]_vars

\* Level4PageTableUnlocked::update(vaddr, paddr, flags).
update(pt, vaddr, paddr, flags) ==
    LET set(r, e) ==
            [err |-> "", size |-> r.size,
             pt |-> WriteEntry(pt, r.loc,
                               PTE_set_flags(pt.kind, PTE_set_addr(e, paddr),
                                             flags, PageSize_is_huge(r.size)))]
        result(r) ==
            IF r.err # "" THEN [err |-> r.err, size |-> 0, pt |-> pt]
            ELSE set(r, EntryAt(pt, r.loc))
    IN  result(get_entry_mut(pt, vaddr))

LockCpus == 2

LockTables == {"P", "C"}

LockOps == {"map", "unmap", "update", "query"}

LockRegions ==
    {r \in PageRegions :
        r.size = Size2M /\ r.paddr = 0 /\ r.flags = {"READ", "WRITE"}}

\* The Mutex behind a table's clonee_lock.
LockOf(table) == IF table = "P" THEN mem.clonee_lock ELSE mem.clone_lock

\* A CPU calls map, unmap, update or query on the table or on its clone and
\* reaches self.clonee_lock.lock().
PtCall(c) ==
    /\ mem.ops < MaxPageOps
    /\ mem.last.res # "panic"
    /\ \A u \in mem.users : u.cpu # c
    /\ \E table \in LockTables, op \in LockOps :
          /\ table = "C" => mem.clone # 0
          /\ mem' = [mem EXCEPT !.users = @ \cup
                        {[cpu |-> c, table |-> table, op |-> op,
                          stage |-> "spin"]}]
    /\ UNCHANGED << vendor, online_cpus, ENTERED_CPUS, INITED_CPUS,
                    INIT_EARLY_OK, INIT_LATE_OK, ERROR_NUM, ACTIVATED_CPUS,
                    TRY_DISABLE_CPUS, early, pc, is_primary, err, ret, state,
                    cpus, linux, vcpu, host, deact_fails >>

\* spin::Mutex::lock(): the compare-exchange succeeds once the Mutex is free.
PtLock(c) ==
    /\ \E u \in mem.users :
          /\ u.cpu = c
          /\ u.stage = "spin"
          /\ LockOf(u.table) \notin mem.locked
          /\ mem' = [mem EXCEPT !.locked = @ \cup {LockOf(u.table)},
                                !.users = (@ \ {u}) \cup
                                          {[u EXCEPT !.stage = "locked"]}]
    /\ UNCHANGED << vendor, online_cpus, ENTERED_CPUS, INITED_CPUS,
                    INIT_EARLY_OK, INIT_LATE_OK, ERROR_NUM, ACTIVATED_CPUS,
                    TRY_DISABLE_CPUS, early, pc, is_primary, err, ret, state,
                    cpus, linux, vcpu, host, deact_fails >>

\* What the operation does to the table it was called on.
PtBody(pt, op) ==
    CASE op = "map" ->
           {MapLoop(pt, r, r.start, r.size) : r \in LockRegions}
      [] op = "unmap" ->
           {UnmapLoop(pt, r.start, r.size) : r \in LockRegions}
      [] op = "update" ->
           {LET r == update(pt, v, Size1G, {"READ"})
            IN  [res |-> IF r.err = "" THEN "Ok" ELSE r.err, pt |-> r.pt] :
               v \in {0, Size2M}}
      [] OTHER ->
           {LET r == query(pt, v)
            IN  [res |-> IF r.err = "" THEN "Ok" ELSE r.err, pt |-> pt] :
               v \in {0, Size2M}}

\* The operation runs under the guard and returns, which drops the guard.
PtReturn(c) ==
    /\ \E u \in mem.users :
          /\ u.cpu = c
          /\ u.stage = "locked"
          /\ \E r \in PtBody(IF u.table = "C" THEN Clone(mem) ELSE mem,
                               u.op) :
                mem' = [r.pt EXCEPT !.root = mem.root,
                                    !.locked = @ \ {LockOf(u.table)},
                                    !.users = @ \ {u},
                                    !.ops = @ + 1,
                                    !.last = [op |-> u.op, res |-> r.res,
                                              start |-> 0, size |-> 0]]
    /\ UNCHANGED << vendor, online_cpus, ENTERED_CPUS, INITED_CPUS,
                    INIT_EARLY_OK, INIT_LATE_OK, ERROR_NUM, ACTIVATED_CPUS,
                    TRY_DISABLE_CPUS, early, pc, is_primary, err, ret, state,
                    cpus, linux, vcpu, host, deact_fails >>

LockNext ==
    \/ PageClone
    \/ \E c \in 0 .. (LockCpus - 1) : PtCall(c)
    \/ \E c \in 0 .. (LockCpus - 1) : PtLock(c)
    \/ \E c \in 0 .. (LockCpus - 1) : PtReturn(c)

\* Two CPUs working on a page table and on its clone.
LockSpec == PageInit /\ [][LockNext]_vars

\* addr::page_offset(addr): the offset in a 4 KiB page.
addr_page_offset(addr) == addr % Size4K

\* GuestPtr::check_raw(addr) for a T of the given alignment.
check_raw(addr, align) ==
    IF addr = 0 THEN "EFAULT"
    ELSE IF addr % align # 0 THEN "EINVAL"
    ELSE ""

\* The loop of GuestPtr::read(): one query and one copy per guest page.
RECURSIVE ReadLoop(_, _, _, _)
ReadLoop(pt, gvaddr, size, data) ==
    LET copy(gpaddr, read_size) ==
            ReadLoop(pt, gvaddr + read_size, size - read_size,
                     Append(data, [gpaddr |-> gpaddr, len |-> read_size]))
        min(a, b) == IF a < b THEN a ELSE b
        walked(q) ==
            IF q.err # "" THEN [res |-> q.err, data |-> << >>]
            ELSE copy(q.paddr,
                      min(q.size - page_offset(q.size, gvaddr), size))
    IN  IF size <= 0 THEN [res |-> "Ok", data |-> data]
        ELSE walked(query(pt, gvaddr))

\* GuestPtr::read() of a T.
GuestPtr_read(pt, gvaddr, T) ==
    IF check_raw(gvaddr, T.align) # ""
    THEN [res |-> check_raw(gvaddr, T.align), data |-> << >>]
    ELSE ReadLoop(pt, gvaddr, T.size, << >>)

\* GuestPtr::as_ref() and GuestPtr::as_mut() of a T: the same checks, then
\* a reference to size_of::<T>() bytes at the alias of gpaddr.
GuestPtr_as_ref(pt, gvaddr, T) ==
    LET walked(q) ==
            IF q.err # "" THEN [res |-> q.err, data |-> << >>]
            ELSE IF addr_page_offset(q.paddr) + T.size > q.size
            THEN [res |-> "EINVAL", data |-> << >>]
            ELSE [res |-> "Ok",
                  data |-> << [gpaddr |-> q.paddr, len |-> T.size] >>]
    IN  IF check_raw(gvaddr, T.align) # ""
        THEN [res |-> check_raw(gvaddr, T.align), data |-> << >>]
        ELSE walked(query(pt, gvaddr))

\* The types read through a guest pointer: a u64, and two u64 side by side.
GuestTypes == {[size |-> 8, align |-> 8], [size |-> 16, align |-> 8]}

\* Null, the last 8 bytes of the first 4 KiB, 2 MiB and 1 GiB of the guest's
\* address space, and an address that is not 8-byte aligned.
GuestVaddrs == {0, Size4K - 8, Size2M - 8, Size1G - 8, Size4K - 4}

\* GuestPtr::read() through the guest's page table.
GuestRead ==
    /\ mem.ops < MaxPageOps
    /\ \E gvaddr \in GuestVaddrs, T \in GuestTypes :
          LET r == GuestPtr_read(mem, gvaddr, T)
          IN  mem' = [mem EXCEPT !.ops = @ + 1,
                                 !.data = r.data,
                                 !.last = [op |-> "read", res |-> r.res,
                                           start |-> gvaddr,
                                           size |-> T.size]]
    /\ UNCHANGED << vendor, online_cpus, ENTERED_CPUS, INITED_CPUS,
                    INIT_EARLY_OK, INIT_LATE_OK, ERROR_NUM, ACTIVATED_CPUS,
                    TRY_DISABLE_CPUS, early, pc, is_primary, err, ret, state,
                    cpus, linux, vcpu, host, deact_fails >>

\* GuestPtr::as_ref() or as_mut() through the guest's page table.
GuestAsRef ==
    /\ mem.ops < MaxPageOps
    /\ \E gvaddr \in GuestVaddrs, T \in GuestTypes,
          op \in {"as_ref", "as_mut"} :
          LET r == GuestPtr_as_ref(mem, gvaddr, T)
          IN  mem' = [mem EXCEPT !.ops = @ + 1,
                                 !.data = r.data,
                                 !.last = [op |-> op, res |-> r.res,
                                           start |-> gvaddr,
                                           size |-> T.size]]
    /\ UNCHANGED << vendor, online_cpus, ENTERED_CPUS, INITED_CPUS,
                    INIT_EARLY_OK, INIT_LATE_OK, ERROR_NUM, ACTIVATED_CPUS,
                    TRY_DISABLE_CPUS, early, pc, is_primary, err, ret, state,
                    cpus, linux, vcpu, host, deact_fails >>

\* The guest's page table, always in the host entry format, as the guest
\* built it.
GuestInit == PageInit /\ mem.kind = "host"

GuestNext == PageMap \/ GuestRead \/ GuestAsRef

\* A guest page table and guest-pointer accesses through it.
GuestSpec == GuestInit /\ [][GuestNext]_vars

\* Two regions share a byte.
Overlaps(a, b) == a.start - b.start < b.size /\ b.start - a.start < a.size

\* Variant of insert() that leaves the detection of overlap to map().
MemorySet_insert_unchecked(ms, region) ==
    LET done(r) ==
            IF r.res # "Ok" THEN r
            ELSE [res |-> "Ok",
                  pt |-> [r.pt EXCEPT !.regions = @ \cup {region}]]
    IN  done(MapLoop(ms, region, region.start, region.size))

\* MemorySet::insert(region): rejects a region that overlaps an installed
\* one, else maps it and records it.
MemorySet_insert(ms, region) ==
    LET done(r) ==
            IF r.res # "Ok" THEN r
            ELSE [res |-> "Ok",
                  pt |-> [r.pt EXCEPT !.regions = @ \cup {region}]]
    IN  IF \E r \in ms.regions : Overlaps(region, r)
        THEN [res |-> "EINVAL", pt |-> ms]
        ELSE done(MapLoop(ms, region, region.start, region.size))

\* MemorySet::insert(region) on the memory set.
SetInsert ==
    /\ mem.ops < MaxPageOps
    /\ \E region \in PageRegions :
          LET r == MemorySet_insert([mem EXCEPT !.log = NoLog], region)
          IN  mem' = [r.pt EXCEPT !.ops = @ + 1,
                                  !.last = [op |-> "insert", res |-> r.res,
                                            start |-> region.start,
                                            size |-> region.size]]
    /\ UNCHANGED << vendor, online_cpus, ENTERED_CPUS, INITED_CPUS,
                    INIT_EARLY_OK, INIT_LATE_OK, ERROR_NUM, ACTIVATED_CPUS,
                    TRY_DISABLE_CPUS, early, pc, is_primary, err, ret, state,
                    cpus, linux, vcpu, host, deact_fails >>

SetNext == SetInsert

\* A memory set from MemorySet::new() and the inserts made into it.
SetSpec == PageInit /\ [][SetNext]_vars


\* ------------------------------------------------------------------ claims
\* Positions of main() at or after its call of activate_vmm().
AtActivation == {"activate", "guest", "dis_inc", "dis_wait", "panic",
                 "linux", "halted"}

\* C1: a CPU that is about to call activate_vmm(), or has called it, finds
\* INITED_CPUS at online_cpus and INIT_LATE_OK set: no CPU activates before
\* every online CPU finished its per-CPU init and the primary finished late
\* init.
C1_ActivateAfterBarriers ==
    \A c \in CPUS :
        (pc[c] \in AtActivation \/ ret[c] = << 0 >> \/ ACTIVATED_CPUS # 0)
            => (INITED_CPUS = online_cpus /\ INIT_LATE_OK = 1)

C1_Witness ==
    /\ online_cpus = MaxOnline
    /\ \E c \in CPUS : pc[c] = "guest" /\ ~is_primary[c]
    /\ \E c \in CPUS : pc[c] = "wait_late"

\* Positions of main() from the call of cpu_data.init() up to VM entry.
FromPerCpuInit == {"init", "wait_inited", "late", "wait_late", "activate",
                   "guest"}

\* C2: a secondary CPU that is about to run cpu_data.init(), or has run it,
\* finds all five stages of primary_init_early() done and INIT_EARLY_OK set.
C2_SecondaryInitAfterEarly ==
    \A c \in CPUS :
        (~is_primary[c] /\ (pc[c] \in FromPerCpuInit \/ state[c] = "HvEnabled"
                             \/ linux[c].rip # 0))
            => (INIT_EARLY_OK = 1 /\ early = PrimaryEarlyStages)

C2_Witness ==
    \E c \in CPUS, p \in CPUS :
        /\ ~is_primary[c] /\ pc[c] = "wait_inited" /\ state[c] = "HvEnabled"
        /\ is_primary[p] /\ pc[p] = "init"

\* The four boot barriers of main().
Barriers == {"wait_entered", "wait_early", "wait_inited", "wait_late"}

\* The counter a CPU in a barrier waits for has reached its target.
BarrierOpen(c) ==
    CASE pc[c] = "wait_entered" -> ENTERED_CPUS >= online_cpus
      [] pc[c] = "wait_early" -> INIT_EARLY_OK >= 1
      [] pc[c] = "wait_inited" -> INITED_CPUS >= online_cpus
      [] pc[c] = "wait_late" -> INIT_LATE_OK >= 1
      [] OTHER -> TRUE

\* Setup has failed on some CPU: main() returned Err there, or the error is
\* already in ERROR_NUM.
SetupFailed == ERROR_NUM # 0 \/ \E d \in CPUS : pc[d] = "fail"

InGuestMode(c) == pc[c] \in {"guest", "dis_inc", "dis_wait", "panic", "halted"}

\* C4: ACTIVATED_CPUS equals the number of CPUs that have entered guest
\* mode and not yet left it, and is never negative, on the normal paths and
\* on the paths where VM entry fails, deactivate_vmm fails or the panic
\* handler deactivates.
C4_ActivatedIsEntriesMinusExits ==
    /\ ACTIVATED_CPUS = Cardinality({c \in CPUS : InGuestMode(c)})
    /\ ACTIVATED_CPUS >= 0

\* C5: INITED_CPUS <= ENTERED_CPUS <= max_cpus in every state, and no step
\* decreases either counter.
C5_BootCounters ==
    /\ [](INITED_CPUS <= ENTERED_CPUS /\ ENTERED_CPUS <= max_cpus)
    /\ [][INITED_CPUS' >= INITED_CPUS /\ ENTERED_CPUS' >= ENTERED_CPUS]_vars

C5_Witness ==
    /\ online_cpus = MaxOnline
    /\ ENTERED_CPUS = online_cpus
    /\ INITED_CPUS = online_cpus - 1
    /\ \E c \in CPUS : pc[c] = "init"

\* CPU c is deactivated by the HypervisorDisable hypercall in this step.
DeactivatedByHypercall(c) == pc[c] = "dis_wait" /\ pc'[c] = "linux"

\* CPU d is activated and has not incremented TRY_DISABLE_CPUS for the
\* disable in progress.
ActivatedOutsideHandler(d) == pc[d] \in {"guest", "dis_inc", "panic"}

\* C6: at the step that deactivates a CPU by the HypervisorDisable
\* hypercall, no CPU is activated without having incremented
\* TRY_DISABLE_CPUS.
C6_DisableBarrier ==
    [][\A c \in CPUS : DeactivatedByHypercall(c)
            => \A d \in CPUS : ~ActivatedOutsideHandler(d)]_vars

\* The outcome of the disable scenario: every CPU is back in the host and
\* the counter is 0, unless a deactivate_vmm call failed.
DisableDone ==
    \/ ACTIVATED_CPUS = 0 /\ \A c \in CPUS : pc[c] = "linux"
    \/ deact_fails > 0

\* The privileged guest on CPU c is inside hypervisor_disable() and saw all
\* max_cpus CPUs activated.
InDisable(c) ==
    /\ pc[c] \in {"dis_inc", "dis_wait"}
    /\ cpus[c] = max_cpus
    /\ vcpu[c].cpl = 0

NonPrivilegedDisable(c) ==
    /\ pc[c] = "guest"
    /\ vcpu'[c] # vcpu[c]
    /\ vcpu'[c].exit.reason = "vmcall"
    /\ vcpu'[c].rax = 0
    /\ vcpu'[c].cpl # 0

\* C8: hypercall 0 from a non-privileged guest injects #GP(0) and resumes
\* the guest; TRY_DISABLE_CPUS and ACTIVATED_CPUS are unchanged and the CPU
\* stays HvEnabled.
C8_NonPrivilegedFaults ==
    [][\A c \in CPUS : NonPrivilegedDisable(c)
            => /\ vcpu'[c].inject = "gp0"
               /\ pc'[c] = "guest"
               /\ TRY_DISABLE_CPUS' = TRY_DISABLE_CPUS
               /\ ACTIVATED_CPUS' = ACTIVATED_CPUS
               /\ state'[c] = "HvEnabled"]_vars

\* C9: after a successful disable the host resumes at the exit RIP plus 3
\* with RAX = 0 and the guest's other registers as at the hypercall.
C9_ResumeAfterVmcall ==
    \A c \in CPUS :
        (host[c] # << >> /\ host[c][1].by = "hypercall")
            => /\ host[c][1].rip = vcpu[c].exit.guest_rip + VM_EXIT_LEN_HYPERCALL
               /\ host[c][1].rax = 0
               /\ host[c][1].rbx \in GuestRbxs

ExitTaken(c, reasons) ==
    /\ pc[c] = "guest"
    /\ vcpu'[c].exit.reason \in reasons
    /\ \/ pc'[c] # "guest"
       \/ vcpu'[c].exit # vcpu[c].exit
       \/ vcpu'[c].rip # vcpu[c].rip
       \/ vcpu'[c].inject # vcpu[c].inject

\* C11: a VM exit that is not a hypercall and whose handler returns an
\* error (nested page fault / EPT violation, a reason without a handler)
\* ends with #GP(0) queued for the guest and the guest resumed; the CPU
\* stays HvEnabled and ACTIVATED_CPUS keeps its value.
C11_HandlerErrorInjectsFault ==
    [][\A c \in CPUS :
          ExitTaken(c, {"npf", "other"})
              => /\ vcpu'[c].inject = "gp0"
                 /\ pc'[c] = "guest"
                 /\ state'[c] = "HvEnabled"
                 /\ ACTIVATED_CPUS' = ACTIVATED_CPUS]_vars

\* C12: when hypervisor_disable() fails, the guest is resumed after its
\* VMCALL/VMMCALL with the negated errno in RAX and with no event queued
\* for injection.
C12_HypercallErrorInRax ==
    [][\A c \in CPUS :
          (pc[c] = "dis_wait" /\ pc'[c] = "guest")
              => /\ vcpu'[c].rax < 0
                 /\ (0 - vcpu'[c].rax) \in HvErrorNums
                 /\ vcpu'[c].inject = "none"
                 /\ vcpu'[c].rip =
                        vcpu'[c].exit.guest_rip + 3]_vars

C12_Witness ==
    \E c \in CPUS :
        /\ pc[c] = "guest"
        /\ vcpu[c].exit.reason = "vmcall"
        /\ vcpu[c].rax = HvErrorCode(ENOMEM)
        /\ vcpu[c].inject = "none"
        /\ state[c] = "HvEnabled"

\* Positions a CPU can be at once its exit handler has panicked.
AfterPanic == {"panic", "linux", "halted"}

\* C13: after a triple-fault exit (VMX TRIPLE_FAULT / SVM SHUTDOWN) the CPU
\* is in the panic path or past it, never back in the guest, and nothing is
\* queued for injection.
C13_TripleFaultPanics ==
    \A c \in CPUS :
        vcpu[c].exit.reason = "triple"
            => (pc[c] \in AfterPanic /\ vcpu[c].inject = "none")

C13_Witness ==
    \E c \in CPUS :
        /\ vcpu[c].exit.reason = "triple"
        /\ pc[c] = "linux"
        /\ host[c][1].by = "panic"

\* C14: after an exit that reports a failed VM entry (VMX entry_failure /
\* SVM VMEXIT_INVALID) the CPU is in the panic path or past it; it is not
\* resumed with a fault queued.
C14_EntryFailurePanics ==
    \A c \in CPUS :
        vcpu[c].exit.reason = "entry_fail"
            => (pc[c] \in AfterPanic /\ vcpu[c].inject = "none")

C14_Witness ==
    \E c \in CPUS :
        /\ vcpu[c].exit.reason = "entry_fail"
        /\ pc[c] = "panic"
        /\ state[c] = "HvEnabled"

\* The fixed length of the instruction each exit reason intercepts.
FixedLength(reason) ==
    CASE reason \in {"cpuid", "rdmsr", "wrmsr"} -> 2
      [] reason = "vmcall" -> 3
      [] OTHER -> 0

\* C15: once a VM exit has been handled, guest RIP is the RIP of the exit
\* plus 2 for CPUID, RDMSR and WRMSR, plus 3 for VMCALL/VMMCALL, and the
\* RIP of the exit itself for every other reason.
C15_RipAdvancedOnce ==
    \A c \in CPUS :
        vcpu[c].exit.reason # "none"
            => vcpu[c].rip =
                   vcpu[c].exit.guest_rip + FixedLength(vcpu[c].exit.reason)

C15_Witness ==
    /\ \E c \in CPUS : pc[c] = "guest" /\ vcpu[c].exit.reason = "cpuid"
                          /\ vcpu[c].rip = vcpu[c].exit.guest_rip + 2

\* CPU c's last VM exit was a CPUID of a leaf other than the two
\* hypervisor leaves.
NativeCpuidExit(c) ==
    /\ vcpu[c].exit.reason = "cpuid"
    /\ vcpu[c].exit.function \notin {HypervisorInfo, HypervisorFeatures}

C17_OsxsaveFollowsGuestCr4 ==
    \A c \in CPUS :
        (NativeCpuidExit(c) /\ vcpu[c].exit.function = {0})
            => (27 \in vcpu[c].rcx <=> vcpu[c].osxsave)

\* The bits of ECX the handler may rewrite for a leaf.
SpoofedBits(function) ==
    IF function = {0} THEN {5, 27, 31}
    ELSE IF function = {0, 31} THEN {2}
    ELSE {}

ProbeOffsets(size) == {0, 291, size - 1}

\* C19: for every page that was mapped successfully with size s, physical
\* base p and flags f and is still mapped, query(v) of an address v inside
\* it returns p + (v mod s), flags that include f, and s.
C19_QueryReturnsMapping ==
    \A m \in mem.mapped :
        \A off \in ProbeOffsets(m.size) :
            LET q == query(mem, m.vaddr + off)
            IN  /\ q.err = ""
                /\ q.paddr = m.paddr + off
                /\ m.flags \subseteq q.flags
                /\ q.size = m.size

\* The step unmaps the region whose single page the step before mapped.
UnmapAfterMap ==
    /\ mem.last.op = "map"
    /\ mem.last.res = "Ok"
    /\ mem'.last.op = "unmap"
    /\ mem'.last.start = mem.last.start
    /\ mem'.last.size = mem.last.size

\* C20: after one page of size 4K, 2M or 1G has been mapped and the same
\* range is unmapped, query of the page's address returns NotMapped.
C20_MapUnmapNotMapped ==
    [][UnmapAfterMap
          => query(mem', mem'.last.start) = [err |-> "NotMapped"]]_vars

C20_Witness ==
    /\ mem.last.op = "unmap"
    /\ mem.last.res = "Ok"
    /\ mem.last.size = Size1G
    /\ mem.nframes = 2
    /\ query(mem, mem.last.start) = [err |-> "NotMapped"]
    /\ mem.mapped = {}

\* The pages the last step's map() installed.
NewPages == mem'.mapped \ mem.mapped

\* The pages the last step's map() chose a size for: the installed ones and,
\* when it failed, the one its error line names.
ChosenPages ==
    NewPages \cup (IF mem'.last.res = "Ok" THEN {} ELSE {mem'.log})

\* The bytes of the region still to map when the cursor is at vaddr.
Remaining(vaddr) == mem'.last.size - (vaddr - mem'.last.start)

\* C21: map() chooses the page size at each cursor position greedily:
\* 1 GiB if the virtual cursor and the physical address are both 1 GiB-aligned,
\* at least 1 GiB of the region remains and NO_HUGEPAGES is not set; otherwise
\* 2 MiB under the same conditions for 2 MiB; otherwise 4 KiB.
C21_GreedyPageSize ==
    [][(mem'.ops = mem.ops + 1 /\ mem'.last.op = "map")
       => /\ \A m \in ChosenPages :
                LET fits(n) == /\ m.vaddr % n = 0
                               /\ m.paddr % n = 0
                               /\ Remaining(m.vaddr) >= n
                               /\ "NO_HUGEPAGES" \notin m.flags
                IN  /\ m.size = IF fits(1073741824) THEN 1073741824
                                 ELSE IF fits(2097152) THEN 2097152
                                 ELSE 4096
                    /\ \/ m.vaddr = mem'.last.start
                       \/ \E n \in NewPages : n.vaddr + n.size = m.vaddr
          /\ \A m \in NewPages :
                LET walk == query(mem', m.vaddr)
                IN  walk.err = "" => walk.size = m.size]_vars

\* A region was mapped as a 4 KiB page and a 2 MiB page.
C21_Witness ==
    /\ mem.last = [op |-> "map", res |-> "Ok", start |-> Size2M - Size4K,
                   size |-> Size2M + Size4K]
    /\ query(mem, Size2M - Size4K).size = Size4K
    /\ query(mem, Size2M).size = Size2M
    /\ query(mem, Size2M).paddr = Size2M

\* Addresses in and around every region of PageRegions.
SetProbes ==
    UNION {{r.start, r.start + Size4K, r.start + (r.size - 1)} :
              r \in PageRegions}

\* The region the last step's insert() was given overlaps an installed one.
InsertOverlapped ==
    /\ mem'.ops = mem.ops + 1
    /\ mem'.last.op = "insert"
    /\ \E r \in mem.regions : Overlaps(mem'.last, r)

\* C22: inserting a region that overlaps an already-installed region fails
\* with an error and leaves the memory set unchanged: the region list and
\* the result of query for every address are the same as before the call.
C22_OverlapRejected ==
    [][InsertOverlapped
       => /\ mem'.last.res # "Ok"
          /\ mem'.regions = mem.regions
          /\ mem'.tables = mem.tables
          /\ \A v \in SetProbes : query(mem', v) = query(mem, v)]_vars

\* The 2 MiB page at 2 MiB is installed and the insert of the region that
\* starts 4 KiB below it was refused.
C22_Witness ==
    /\ mem.last = [op |-> "insert", res |-> "EINVAL",
                   start |-> Size2M - Size4K, size |-> Size2M + Size4K]
    /\ \E r \in mem.regions : r.start = Size2M /\ r.size = Size2M
    /\ query(mem, Size2M).err = ""
    /\ query(mem, Size2M - Size4K).err = "NotMapped"

\* C23: immediately after C = P.clone(), C.query(v) equals P.query(v) for
\* every virtual address v: the same physical address, flags and page size,
\* or the same error.
C23_CloneQueriesAlike ==
    [][(mem.clone = 0 /\ mem'.clone # 0)
       => \A v \in SetProbes :
             /\ query(Clone(mem'), v) = query(mem', v)
             /\ query(Clone(mem'), v) = query(mem, v)]_vars

\* The table was cloned with a 2 MiB page mapped; the clone's own root
\* resolves the page and reports the unmapped addresses as unmapped.
C23_Witness ==
    /\ mem.last.op = "clone"
    /\ mem.last.res = "Ok"
    /\ mem.clone = 3
    /\ query(Clone(mem), Size2M).err = ""
    /\ query(Clone(mem), Size2M).size = Size2M
    /\ \E v \in SetProbes : query(Clone(mem), v).err = "NotMapped"
    /\ \E l \in DOMAIN mem.tables : l[1] = mem.clone

\* C24: map, unmap, update and query on a page table and on any clone made
\* from it with clone() are mutually exclusive: no two of these operations
\* are in progress at once on tables that share the exclusion token.
C24_OpsExclusive ==
    \A u1, u2 \in mem.users :
       (u1.stage = "locked" /\ u2.stage = "locked") => u1 = u2

\* One CPU holds the guard for a map on the table while the other spins on
\* the clone's lock for an unmap; a page is already mapped.
C24_Witness ==
    /\ mem.clone # 0
    /\ mem.mapped # {}
    /\ \E u1, u2 \in mem.users :
          /\ u1.cpu # u2.cpu
          /\ u1.table = "P" /\ u1.op = "map" /\ u1.stage = "locked"
          /\ u2.table = "C" /\ u2.op = "unmap" /\ u2.stage = "spin"

\* The last access was to a T at an aligned address whose bytes lie in two
\* mapped guest pages, the first of the given size.
Straddles(page_size) ==
    /\ mem.last.op \in {"read", "as_ref", "as_mut"}
    /\ mem.last.start # 0
    /\ mem.last.start % 8 = 0
    /\ query(mem, mem.last.start).err = ""
    /\ query(mem, mem.last.start).size = page_size
    /\ page_offset(page_size, mem.last.start) + mem.last.size > page_size
    /\ query(mem, align_down(page_size, mem.last.start)
                     + (page_size - 1) + 1).err = ""

\* C25: for a T whose bytes straddle two guest pages, GuestPtr::read succeeds
\* and returns the bytes of both pages in order, while as_ref (and as_mut) on
\* the same pointer fails with EINVAL, for every guest page size the guest
\* page table can report (4 KiB, 2 MiB, 1 GiB).
C25_StraddlingAccess ==
    \A page_size \in PageSizes :
       Straddles(page_size) =>
          LET first == page_size - page_offset(page_size, mem.last.start)
              next == mem.last.start + first
          IN  IF mem.last.op = "read"
              THEN /\ mem.last.res = "Ok"
                   /\ mem.data =
                         << [gpaddr |-> query(mem, mem.last.start).paddr,
                             len |-> first],
                            [gpaddr |-> query(mem, next).paddr,
                             len |-> mem.last.size - first] >>
              ELSE mem.last.res = "EINVAL"

\* ------------------------------------------------ VMX teardown and the MSRs
\* IA32_PAT and IA32_EFER values: the one Linux runs with when the driver
\* enables the hypervisor, and the ones the guest may load afterwards.
LinuxMsr == [pat |-> "PAT_BOOT", efer |-> "EFER_BOOT"]

GuestMsrValues == [pat |-> {"PAT_BOOT", "PAT_GUEST"},
                   efer |-> {"EFER_BOOT", "EFER_GUEST"}]

\* LinuxContext::load_from(): the snapshot also holds IA32_EFER and IA32_PAT
\* as read at enable time.
LinuxContext_load_from(lrip) ==
    [rip |-> lrip, pat |-> LinuxMsr.pat, efer |-> LinuxMsr.efer]

\* Vcpu::setup_vmcs_guest(): the guest-state IA32_PAT / IA32_EFER fields of the
\* VMCS start as the snapshot's values.
setup_vmcs_guest(lx) == [pat |-> lx.pat, efer |-> lx.efer]

\* LinuxContext::restore(): the MSR writes, wrmsr(IA32_EFER, self.efer) and
\* wrmsr(IA32_PAT, self.pat).
LinuxContext_restore(lx) == [pat |-> lx.pat, efer |-> lx.efer]

\* One CPU in guest mode, straight after activation.  Vcpu::new() has turned
\* virtualization on (VMXON, resp. EFER.SVME): vcpu.virt.
TeardownInit ==
    /\ vendor \in {"vmx", "svm"}
    /\ online_cpus = ExitCpus
    /\ ENTERED_CPUS = ExitCpus
    /\ INITED_CPUS = ExitCpus
    /\ INIT_EARLY_OK = 1
    /\ INIT_LATE_OK = 1
    /\ ERROR_NUM = 0
    /\ ACTIVATED_CPUS = ExitCpus
    /\ TRY_DISABLE_CPUS = 0
    /\ early = PrimaryEarlyStages
    /\ pc = [c \in CPUS |-> IF c < ExitCpus THEN "guest" ELSE "offline"]
    /\ \E p \in 0 .. (ExitCpus - 1) : is_primary = [c \in CPUS |-> c = p]
    /\ err = [c \in CPUS |-> 0]
    /\ ret = [c \in CPUS |-> IF c < ExitCpus THEN << 0 >> ELSE << >>]
    /\ state = [c \in CPUS |-> IF c < ExitCpus THEN "HvEnabled"
                               ELSE "HvDisabled"]
    /\ cpus = [c \in CPUS |-> 0]
    /\ \E lrip \in LoaderRips :
          LET lx == LinuxContext_load_from(lrip)
              v == VcpuNew(lx)
          IN /\ linux = [c \in CPUS |-> lx]
             /\ vcpu = [c \in CPUS |->
                           [rip |-> v.rip, rax |-> v.rax, rbx |-> v.rbx,
                            rcx |-> v.rcx, rdx |-> v.rdx, cpl |-> v.cpl,
                            osxsave |-> v.osxsave, inject |-> v.inject,
                            exit |-> v.exit, msr |-> setup_vmcs_guest(lx),
                            virt |-> TRUE]]
    /\ host = [c \in CPUS |-> << >>]
    /\ deact_fails = 0
    /\ mem = PageTableNew("host")

\* The guest executes WRMSR on IA32_PAT or IA32_EFER.  The VMCS runs with
\* USE_MSR_BITMAPS: with the MSR's bit clear in the bitmap the write takes
\* effect in the guest and the next VM exit saves it to the guest-state area
\* (VM-exit controls SAVE_IA32_PAT / SAVE_IA32_EFER); with the bit set the
\* write exits to handle_msr_write(), which drops it and advances RIP.
GuestWrmsr(c) ==
    /\ pc[c] = "guest"
    /\ \E which \in {"pat", "efer"} :
          \E val \in GuestMsrValues[which] :
             \/ vcpu' = [vcpu EXCEPT ![c].msr[which] = val]
             \/ \E grip \in GuestRips :
                   vcpu' = [vcpu EXCEPT ![c] =
                               advance_rip(
                                   [@ EXCEPT !.rip = grip,
                                             !.exit = [reason |-> "wrmsr",
                                                       guest_rip |-> grip]],
                                   VM_EXIT_LEN_WRMSR)]
    /\ UNCHANGED << mem, vendor, online_cpus, ENTERED_CPUS, INITED_CPUS,
                    INIT_EARLY_OK, INIT_LATE_OK, ERROR_NUM, ACTIVATED_CPUS,
                    TRY_DISABLE_CPUS, early, pc, is_primary, err, ret, state,
                    cpus, linux, host, deact_fails >>

TeardownNext ==
    \E c \in CPUS : GuestWrmsr(c) \/ VmExitHypercall(c) \/ HandlerStep(c)

TeardownSpec == TeardownInit /\ [][TeardownNext]_vars

\* The step on which CPU c leaves the hypervisor for Linux.
TornDown(c) == pc[c] # "linux" /\ pc'[c] = "linux"

\* C26: on VMX teardown, the IA32_PAT and IA32_EFER values the host is
\* restored with are the guest's values at the time of the disable: Vcpu::exit
\* copied them from the VMCS guest-state area into the Linux context.
C26_TeardownKeepsGuestMsrs ==
    [][\A c \in CPUS :
          (vendor = "vmx" /\ TornDown(c))
              => LinuxContext_restore(linux'[c]) = vcpu[c].msr]_vars

\* The step on which CPU c enters the guest for the first time.
FirstVmEntry(c) == pc[c] = "activate" /\ pc'[c] = "guest"

\* The step on which PerCpu::init() returns Err on CPU c.
PerCpuInitFails(c) == pc[c] = "init" /\ pc'[c] = "fail"

\* C27: a per-CPU block's state goes from HvDisabled to HvEnabled only on
\* that CPU's first VM entry and from HvEnabled to HvDisabled only on
\* teardown, it makes no other transition, and it is HvDisabled when per-CPU
\* init failed.
C27_StateTransitions ==
    [][\A c \in CPUS :
          /\ (state[c] = "HvDisabled" /\ state'[c] = "HvEnabled")
                 => FirstVmEntry(c)
          /\ FirstVmEntry(c) => state'[c] = "HvEnabled"
          /\ (state[c] = "HvEnabled" /\ state'[c] = "HvDisabled")
                 => TornDown(c)
          /\ PerCpuInitFails(c) => state'[c] = "HvDisabled"]_vars

\* PerCpu::cpu_id of the block CPU c runs on: the index the driver passes to
\* arch_entry(), which selects the block with PerCpu::from_id().
cpu_id(c) == c

\* CPU c runs primary_init_early() or primary_init_late().
RunsPrimaryInit(c) == pc[c] \in {"early", "late"}

\* C28: in every interleaving of CPU entries, the CPU that takes the primary
\* role (runs primary_init_early and primary_init_late) is the CPU whose
\* per-CPU id is 0.
C28_PrimaryIsCpu0 ==
    \A c \in CPUS : (is_primary[c] \/ RunsPrimaryInit(c)) => cpu_id(c) = 0

\* The step is an unmap() call.
UnmapCall == mem'.ops = mem.ops + 1 /\ mem'.last.op = "unmap"

\* The region of the step's unmap() call covers a part of page m, not all
\* of it.
PartlyCovered(m) ==
    /\ m.vaddr - mem'.last.start < mem'.last.size
    /\ mem'.last.start - m.vaddr < m.size
    /\ ~(/\ mem'.last.start <= m.vaddr
         /\ m.vaddr - mem'.last.start <= mem'.last.size - m.size)

\* C29: unmap() clears a leaf entry only after checking that the leaf's page
\* size is aligned to the cursor and does not exceed the remaining region
\* size: a region that covers only part of a huge-page mapping is rejected
\* with that mapping still intact.
C29_PartialUnmapKeepsPage ==
    [][UnmapCall =>
          \A m \in mem.mapped :
             (PartlyCovered(m) /\ query(mem, m.vaddr).err = "")
                 => /\ mem'.last.res # "Ok"
                    /\ query(mem', m.vaddr) = query(mem, m.vaddr)]_vars

\* ------------------------------------------- deactivation, statement by
\* statement.  PerCpu::deactivate_vmm() and deactivate_vmm_common() as the
\* program positions of the CPU; host[c] lists the statements the running
\* call has completed.
deactivate_vmm_next_restore_first(at) ==
    CASE at = "deact_dec" -> "deact_ret"
      [] at = "deact_ret" -> "deact_map"
      [] at = "deact_map" -> "deact_restore"
      [] at = "deact_restore" -> "deact_exit"
      [] at = "deact_exit" -> "deact_state"
      [] at = "deact_state" -> "deact_return"
      [] at = "deact_return" -> "linux"

deactivate_vmm_next(at) ==
    CASE at = "deact_dec" -> "deact_ret"
      [] at = "deact_ret" -> "deact_map"
      [] at = "deact_map" -> "deact_exit"
      [] at = "deact_exit" -> "deact_restore"
      [] at = "deact_restore" -> "deact_state"
      [] at = "deact_state" -> "deact_return"
      [] at = "deact_return" -> "linux"

\* The statement at position `at` of CPU c completes.
DeactDone(c, at, statement) ==
    /\ pc[c] = at
    /\ pc' = [pc EXCEPT ![c] = deactivate_vmm_next(at)]
    /\ host' = [host EXCEPT ![c] = Append(@, statement)]
    /\ UNCHANGED << mem, vendor, online_cpus, ENTERED_CPUS, INITED_CPUS,
                    INIT_EARLY_OK, INIT_LATE_OK, ERROR_NUM, TRY_DISABLE_CPUS,
                    early, is_primary, err, ret, cpus >>

\* The statement at position `at` returns Err(num): deactivate_vmm()
\* returns, the hypercall layer stores the errno in RAX and the guest runs on.
DeactErr(c, at, num) ==
    /\ pc[c] = at
    /\ deact_fails < MaxDeactFail
    /\ deact_fails' = deact_fails + 1
    /\ pc' = [pc EXCEPT ![c] = "guest"]
    /\ vcpu' = [vcpu EXCEPT ![c] = set_return_val(@, HvErrorCode(num))]
    /\ UNCHANGED << mem, vendor, online_cpus, ENTERED_CPUS, INITED_CPUS,
                    INIT_EARLY_OK, INIT_LATE_OK, ERROR_NUM, ACTIVATED_CPUS,
                    TRY_DISABLE_CPUS, early, is_primary, err, ret, state,
                    cpus, host >>

\* hypervisor_disable(): the spin loop is left and deactivate_vmm(0) called.
DeactBegin(c) ==
    /\ pc[c] = "dis_wait"
    /\ ~TryBelow(TRY_DISABLE_CPUS, cpus[c])
    /\ pc' = [pc EXCEPT ![c] = "deact_dec"]
    /\ host' = [host EXCEPT ![c] = << >>]
    /\ UNCHANGED << mem, vendor, online_cpus, ENTERED_CPUS, INITED_CPUS,
                    INIT_EARLY_OK, INIT_LATE_OK, ERROR_NUM, ACTIVATED_CPUS,
                    TRY_DISABLE_CPUS, early, is_primary, err, ret, state,
                    cpus, linux, vcpu, deact_fails >>

\* ACTIVATED_CPUS.fetch_add(-1, SeqCst).
DeactDec(c) ==
    /\ DeactDone(c, "deact_dec", "fetch_add")
    /\ ACTIVATED_CPUS' = ACTIVATED_CPUS - 1
    /\ UNCHANGED << state, linux, vcpu, deact_fails >>

\* self.vcpu.set_return_val(ret_code), ret_code = 0.
DeactSetReturnVal(c) ==
    /\ DeactDone(c, "deact_ret", "set_return_val")
    /\ vcpu' = [vcpu EXCEPT ![c] = set_return_val(@, 0)]
    /\ UNCHANGED << ACTIVATED_CPUS, state, linux, deact_fails >>

\* self.hvm.insert(..)?, flush, and the switch to the common stack mapping.
DeactInsert(c) ==
    \/ /\ DeactDone(c, "deact_map", "hvm_insert")
       /\ UNCHANGED << ACTIVATED_CPUS, state, linux, vcpu, deact_fails >>
    \/ /\ DeactErr(c, "deact_map", ENOMEM)
       /\ linux' = linux

\* self.vcpu.exit(&mut self.linux)?: the guest state is read back, then
\* VMCLEAR and VMXOFF, resp. STGI and EFER.SVME cleared.
DeactVcpuExit(c) ==
    \/ /\ DeactDone(c, "deact_exit", "vcpu_exit")
       /\ linux' = [linux EXCEPT ![c] = VcpuExit(@, vcpu[c])]
       /\ vcpu' = [vcpu EXCEPT ![c].virt = FALSE]
       /\ UNCHANGED << ACTIVATED_CPUS, state, deact_fails >>
    \/ /\ vendor = "vmx"
       /\ DeactErr(c, "deact_exit", EIO)
       /\ linux' = [linux EXCEPT ![c] = VcpuExit(@, vcpu[c])]

\* self.linux.restore(): MSRs, control registers, GDT/IDT, segments.
DeactRestore(c) ==
    /\ DeactDone(c, "deact_restore", "linux_restore")
    /\ UNCHANGED << ACTIVATED_CPUS, state, linux, vcpu, deact_fails >>

\* self.state = CpuState::HvDisabled.
DeactState(c) ==
    /\ DeactDone(c, "deact_state", "state")
    /\ state' = [state EXCEPT ![c] = "HvDisabled"]
    /\ UNCHANGED << ACTIVATED_CPUS, linux, vcpu, deact_fails >>

\* self.vcpu.deactivate_vmm(&self.linux): return_to_linux().
DeactReturn(c) ==
    /\ DeactDone(c, "deact_return", "return_to_linux")
    /\ UNCHANGED << ACTIVATED_CPUS, state, linux, vcpu, deact_fails >>

DeactNext ==
    \E c \in CPUS :
        \/ GuestWrmsr(c)
        \/ VmExitHypercall(c)
        \/ DisableInc(c)
        \/ DeactBegin(c)
        \/ DeactDec(c)
        \/ DeactSetReturnVal(c)
        \/ DeactInsert(c)
        \/ DeactVcpuExit(c)
        \/ DeactRestore(c)
        \/ DeactState(c)
        \/ DeactReturn(c)

\* The disable hypercall's way into deactivate_vmm(); a CPU that panics
\* (SVM, refused hypercall) stays where it is.
DeactSpec == TeardownInit /\ [][DeactNext]_vars

\* The statements the claim orders, as they appear in host[c].
ClaimedOrder ==
    << "fetch_add", "set_return_val", "vcpu_exit", "linux_restore",
       "return_to_linux" >>

ClaimedDone(c) ==
    SelectSeq(host[c],
              LAMBDA st : \E i \in 1 .. Len(ClaimedOrder) :
                             ClaimedOrder[i] = st)

BootPanic(c) ==
    /\ pc[c] = "init"
    /\ \E lrip \in LoaderRips :
          linux' = [linux EXCEPT ![c] = [rip |-> lrip]]
    /\ state' = [state EXCEPT ![c] = "HvDisabled"]
    /\ pc' = [pc EXCEPT ![c] = "panic"]
    /\ UNCHANGED << mem, vendor, online_cpus, ENTERED_CPUS, INITED_CPUS,
                    INIT_EARLY_OK, INIT_LATE_OK, ERROR_NUM, ACTIVATED_CPUS,
                    TRY_DISABLE_CPUS, early, is_primary, err, ret, cpus,
                    vcpu, host, deact_fails >>

PanicCpus == 2

\* PanicCpus CPUs are brought up; each may panic during bring-up or in an
\* exit handler.
PanicInit == Init /\ online_cpus = PanicCpus

PanicNext ==
    \E c \in CPUS :
        \/ Step(c)
        \/ BootPanic(c)
        \/ VmExitHypercall(c)
        \/ VmExitEvent(c)

PanicSpec == PanicInit /\ [][PanicNext]_vars

\* The step on which panic() on CPU c runs try_handle_panic().
PanicHandled(c) == pc[c] = "panic" /\ pc'[c] # "panic"

\* What the claim says the handler does on an HvEnabled CPU.
PanicDeactivates(c) ==
    /\ pc'[c] = "linux"
    /\ state'[c] = "HvDisabled"
    /\ ACTIVATED_CPUS' = ACTIVATED_CPUS - 1
    /\ host'[c][1].rax = IF in_hypercall(vcpu[c]) THEN HvErrorCode(EIO)
                         ELSE 0

\* What it does on an HvDisabled CPU: nothing, and it spins.
PanicLeavesAlone(c) ==
    /\ pc'[c] = "halted"
    /\ UNCHANGED << ACTIVATED_CPUS, state, linux, vcpu, host >>

\* deactivate_vmm() returned Err to try_handle_panic(): the counter is
\* already down, the CPU is still HvEnabled and spins.
PanicDeactivateFails(c) ==
    /\ pc'[c] = "halted"
    /\ ACTIVATED_CPUS' = ACTIVATED_CPUS - 1
    /\ UNCHANGED << state, host >>

\* C31 as stated: on a panic on an HvEnabled CPU the handler deactivates the
\* CPU and hands -EIO to the guest if the exit is a hypercall and 0
\* otherwise; on an HvDisabled CPU it does not deactivate and leaves
\* ACTIVATED_CPUS unchanged.
C31_PanicAlwaysDeactivates ==
    [][\A c \in CPUS :
          PanicHandled(c)
              => IF state[c] = "HvEnabled" THEN PanicDeactivates(c)
                 ELSE PanicLeavesAlone(c)]_vars

\* C31, amended: on an HvEnabled CPU the handler calls deactivate_vmm() with
\* -EIO if the exit is a hypercall and 0 otherwise; the CPU is deactivated
\* with that value unless deactivate_vmm() fails, and then it spins, still
\* HvEnabled, with ACTIVATED_CPUS decremented.  On an HvDisabled CPU nothing
\* is deactivated and ACTIVATED_CPUS is unchanged.
C31_PanicDeactivatesBestEffort ==
    [][\A c \in CPUS :
          PanicHandled(c)
              => IF state[c] = "HvEnabled"
                 THEN PanicDeactivates(c) \/ PanicDeactivateFails(c)
                 ELSE PanicLeavesAlone(c)]_vars

C31_Witness ==
    /\ vendor = "svm"
    /\ pc[0] = "linux"
    /\ vcpu[0].exit.reason = "vmcall"
    /\ host[0][1].by = "panic"
    /\ host[0][1].rax = HvErrorCode(EIO)
    /\ state[0] = "HvDisabled"
    /\ ACTIVATED_CPUS = 0

\* ------------------------------------------- the VM-exit stubs and the GPRs
\* The guest's general-purpose registers in the order of the fields of the
\* register mirror (struct GeneralRegisters); "pad" is _unused_rsp.
GprFields ==
    << "rax", "rcx", "rdx", "rbx", "pad", "rbp", "rsi", "rdi", "r8", "r9",
       "r10", "r11", "r12", "r13", "r14", "r15" >>

GprNames == {GprFields[i] : i \in 1 .. Len(GprFields)} \ {"pad"}

FieldIndex(r) == CHOOSE i \in 1 .. Len(GprFields) : GprFields[i] = r

\* Memory words around the mirror: words 1..16 are its fields, word 17 is
\* Vcpu::host_stack_top (SVM) resp. the top of the hypervisor stack (VMX),
\* word 0 is what lies below the mirror.
StubWords == 0 .. (Len(GprFields) + 1)

MirrorEnd == Len(GprFields) + 1

\* The word of the mirror field of register r.  SVM: the struct, lowest
\* field first.  VMX: vmx_exit pushes RAX first, so RAX is the highest word.
FieldWord(vnd, r) ==
    IF vnd = "svm" THEN FieldIndex(r) ELSE MirrorEnd - FieldIndex(r)

\* Values: the hypervisor stack top, the VMCB's physical address (host RAX
\* around VMRUN), and what stale memory holds.
HostStackTop == 1000

VmcbPaddr == 900

\* push / pop / add rsp, 8 / sub rsp, 8 on a machine [regs, rsp, m].
Push(st, val) ==
    [st EXCEPT !.rsp = st.rsp - 1, !.m[st.rsp - 1] = val]

Pop(st, r) ==
    [st EXCEPT !.rsp = st.rsp + 1, !.regs[r] = st.m[st.rsp]]

\* save_regs_to_stack!(): push r15 .. push rbp, sub rsp 8, push rbx .. rax.
RECURSIVE SaveRegs(_, _)
SaveRegs(st, i) ==
    IF i = 0 THEN st
    ELSE SaveRegs(IF GprFields[i] = "pad"
                  THEN [st EXCEPT !.rsp = st.rsp - 1]
                  ELSE Push(st, st.regs[GprFields[i]]),
                  i - 1)

save_regs_to_stack(st) == SaveRegs(st, Len(GprFields))

\* restore_regs_from_stack!(): pop rax .. pop rbx, add rsp 8, pop rbp .. r15.
RECURSIVE RestoreRegs(_, _)
RestoreRegs(st, i) ==
    IF i > Len(GprFields) THEN st
    ELSE RestoreRegs(IF GprFields[i] = "pad"
                     THEN [st EXCEPT !.rsp = st.rsp + 1]
                     ELSE Pop(st, GprFields[i]),
                     i + 1)

restore_regs_from_stack(st) == RestoreRegs(st, 1)

\* vmx_exit: push rax .. push rbx, sub rsp 8, push rbp .. push r15.
RECURSIVE VmxPushRegs(_, _)
VmxPushRegs(st, i) ==
    IF i > Len(GprFields) THEN st
    ELSE VmxPushRegs(IF GprFields[i] = "pad"
                     THEN [st EXCEPT !.rsp = st.rsp - 1]
                     ELSE Push(st, st.regs[GprFields[i]]),
                     i + 1)

\* vmx_exit: pop r15 .. pop rbp, add rsp 8, pop rbx .. pop rax.
RECURSIVE VmxPopRegs(_, _)
VmxPopRegs(st, i) ==
    IF i = 0 THEN st
    ELSE VmxPopRegs(IF GprFields[i] = "pad"
                    THEN [st EXCEPT !.rsp = st.rsp + 1]
                    ELSE Pop(st, GprFields[i]),
                    i - 1)

\* The registers an exit handler writes in the mirror, with the values:
\* handle_msr_read() zeroes RAX and RDX, handle_cpuid() stores the four
\* result registers, handle_msr_write() and a hypercall with an unknown
\* code write none.
StubReasons == {"cpuid", "rdmsr", "wrmsr", "vmcall_unknown"}

CpuidResult == [rax |-> 801, rbx |-> 802, rcx |-> 803, rdx |-> 804]

HandlerWrites(reason) ==
    CASE reason = "rdmsr" -> [r \in {"rax", "rdx"} |-> 0]
      [] reason = "cpuid" -> CpuidResult
      [] OTHER -> << >>

\* The handler proper on the mirror at its fixed address.
HandlerOnMirror(st, vnd, reason) ==
    LET w == HandlerWrites(reason)
    IN  [st EXCEPT !.m = [a \in StubWords |->
                            IF \E r \in DOMAIN w : FieldWord(vnd, r) = a
                            THEN w[CHOOSE r \in DOMAIN w :
                                      FieldWord(vnd, r) = a]
                            ELSE st.m[a]]]

\* svm VmExit::handle_exit(): regs.rax = vmcb.save.rax; the handler;
\* vmcb.save.rax = regs.rax.
SvmHandleExitRegs(st, reason) ==
    LET in_ == [st EXCEPT !.m[FieldWord("svm", "rax")] = st.vmcb_rax]
        out == HandlerOnMirror(in_, "svm", reason)
    IN  [out EXCEPT !.vmcb_rax = out.m[FieldWord("svm", "rax")]]

\* svm_run after #VMEXIT: the guest's RAX is in the VMCB and RAX holds the
\* host's (the VMCB address); save_regs_to_stack; r14 = rax; r15 = rsp;
\* rsp = [rsp + size_of GuestRegisters]; call vmexit_handler; rsp = r15;
\* push r14; restore_regs_from_stack; jmp svm_run (vmrun rax: the guest's
\* RAX comes from the VMCB).  A stack pointer other than host_stack_top
\* leaves the handler on a wild stack.
svm_run(st0, reason) ==
    LET exited == [st0 EXCEPT !.vmcb_rax = st0.regs["rax"],
                              !.regs["rax"] = VmcbPaddr]
        saved == save_regs_to_stack(exited)
        kept == [saved EXCEPT !.regs["r14"] = saved.regs["rax"],
                              !.regs["r15"] = saved.rsp]
        on_host == [kept EXCEPT !.rsp = kept.m[kept.rsp + Len(GprFields)]]
        handled == SvmHandleExitRegs(on_host, reason)
        back == Push([handled EXCEPT !.rsp = handled.regs["r15"]],
                     handled.regs["r14"])
        popped == restore_regs_from_stack(back)
    IN  IF on_host.rsp # HostStackTop
        THEN [on_host EXCEPT !.wild = TRUE]
        ELSE [popped EXCEPT !.vmrun_rax = popped.regs["rax"],
                            !.regs["rax"] = popped.vmcb_rax]

\* vmx_exit: RSP is the VMCS host RSP (the stack top) at every exit; push
\* the registers, call vmexit_handler, pop them, vmresume.
vmx_exit(st0, reason) ==
    LET pushed == VmxPushRegs([st0 EXCEPT !.rsp = MirrorEnd], 1)
        handled == HandlerOnMirror(pushed, "vmx", reason)
    IN  VmxPopRegs(handled, Len(GprFields))

\* Register files the guest can be running with.
GuestPatterns == {1, 2}

GuestRegs(p) == [r \in GprNames |-> (100 * p) + FieldIndex(r)]

\* The machine of CPU 0 right after activation: RSP at the end of the
\* mirror, the mirror's memory as Vcpu::new() left it.
StubMachine(p) ==
    [regs |-> GuestRegs(p), rsp |-> MirrorEnd,
     m |-> [a \in StubWords |-> IF a = MirrorEnd THEN HostStackTop ELSE 0],
     vmcb_rax |-> 0, vmrun_rax |-> VmcbPaddr, wild |-> FALSE,
     reason |-> "none", exits |-> 0]

MaxStubExits == 2

\* One CPU in guest mode; host[c][1] is the CPU's machine (registers, RSP
\* and the words around the mirror) as the stubs see it.
StubInit ==
    /\ vendor \in {"vmx", "svm"}
    /\ online_cpus = ExitCpus
    /\ ENTERED_CPUS = ExitCpus
    /\ INITED_CPUS = ExitCpus
    /\ INIT_EARLY_OK = 1
    /\ INIT_LATE_OK = 1
    /\ ERROR_NUM = 0
    /\ ACTIVATED_CPUS = ExitCpus
    /\ TRY_DISABLE_CPUS = 0
    /\ early = PrimaryEarlyStages
    /\ pc = [c \in CPUS |-> IF c < ExitCpus THEN "guest" ELSE "offline"]
    /\ is_primary = [c \in CPUS |-> c = 0]
    /\ err = [c \in CPUS |-> 0]
    /\ ret = [c \in CPUS |-> IF c < ExitCpus THEN << 0 >> ELSE << >>]
    /\ state = [c \in CPUS |-> IF c < ExitCpus THEN "HvEnabled"
                               ELSE "HvDisabled"]
    /\ cpus = [c \in CPUS |-> 0]
    /\ linux = [c \in CPUS |-> [rip |-> 0]]
    /\ vcpu = [c \in CPUS |-> [rip |-> 0, rax |-> 0, rbx |-> 0, rcx |-> 0,
                               rdx |-> 0, cpl |-> 0, osxsave |-> FALSE,
                               inject |-> "none", exit |-> NoExit]]
    /\ \E p \in GuestPatterns :
          host = [c \in CPUS |-> IF c < ExitCpus THEN << StubMachine(p) >>
                                 ELSE << >>]
    /\ deact_fails = 0
    /\ mem = PageTableNew("host")

\* The guest runs and leaves other values in its registers.
GuestRun(c) ==
    /\ pc[c] = "guest"
    /\ \E p \in GuestPatterns :
          /\ host[c][1].regs # GuestRegs(p)
          /\ host' = [host EXCEPT ![c][1].regs = GuestRegs(p)]
    /\ UNCHANGED << mem, vendor, online_cpus, ENTERED_CPUS, INITED_CPUS,
                    INIT_EARLY_OK, INIT_LATE_OK, ERROR_NUM, ACTIVATED_CPUS,
                    TRY_DISABLE_CPUS, early, pc, is_primary, err, ret, state,
                    cpus, linux, vcpu, deact_fails >>

\* A VM exit that the handler answers with Ok: the stub from the exit to
\* the next VMRUN / VMRESUME.
VmExitStub(c) ==
    /\ pc[c] = "guest"
    /\ host[c][1].exits < MaxStubExits
    /\ \E reason \in StubReasons :
          LET st == [host[c][1] EXCEPT !.reason = reason,
                                       !.exits = @ + 1]
              out == IF vendor = "svm" THEN svm_run(st, reason)
                     ELSE vmx_exit(st, reason)
          IN  /\ host' = [host EXCEPT ![c] = << out >>]
              /\ pc' = [pc EXCEPT ![c] = IF out.wild THEN "halted"
                                          ELSE "guest"]
    /\ UNCHANGED << mem, vendor, online_cpus, ENTERED_CPUS, INITED_CPUS,
                    INIT_EARLY_OK, INIT_LATE_OK, ERROR_NUM, ACTIVATED_CPUS,
                    TRY_DISABLE_CPUS, early, is_primary, err, ret, state,
                    cpus, linux, vcpu, deact_fails >>

StubNext == \E c \in CPUS : GuestRun(c) \/ VmExitStub(c)

StubSpec == StubInit /\ [][StubNext]_vars

\* The step is a VM exit on CPU c that ends in a guest resume.
ExitResumed(c) ==
    /\ pc[c] = "guest"
    /\ pc'[c] = "guest"
    /\ host'[c][1].exits = host[c][1].exits + 1

\* C32: across a VM exit that ends in a guest resume, every guest GPR the
\* handler did not write has on resume the value it had at the exit, and
\* every register the handler wrote in the mirror, RAX included, has the
\* written value.
C32_GprsAcrossExit ==
    [][\A c \in CPUS :
          ExitResumed(c) =>
              LET w == HandlerWrites(host'[c][1].reason)
              IN  \A r \in GprNames :
                     host'[c][1].regs[r] = IF r \in DOMAIN w THEN w[r]
                                           ELSE host[c][1].regs[r]]_vars

\* ------------------------------------------------- VMCS setup: guest CR4
\* CR4 values are sets of bit names; RSVD stands for a bit the CPU does not
\* allow to be set in VMX operation.
Cr4Bits == {"PAE", "PGE", "SMEP", "OSXSAVE", "VMXE", "RSVD"}

Cr4Not(bits) == Cr4Bits \ bits

\* IA32_VMX_CR4_FIXED0 (bits that must be 1) and IA32_VMX_CR4_FIXED1 (bits
\* that may be 1) of the CPUs considered.
Cr4Fixed0s == {{"VMXE"}, {"VMXE", "PAE"}}

Cr4Fixed1s == {Cr4Bits \ {"RSVD"}, Cr4Bits \ {"RSVD", "OSXSAVE"}}

\* Variant in which the mask written by set_guest_cr(4) is the final one.
CR4_GUEST_HOST_MASK_reset_kept(vmcs) == vmcs

\* setup_vmcs_control(): VmcsField64Control::CR4_GUEST_HOST_MASK.write(0).
CR4_GUEST_HOST_MASK_reset(vmcs) == [vmcs EXCEPT !.cr4_mask = {}]

\* Vcpu::set_guest_cr(4, val).
set_guest_cr4(vmcs, msrs, val0) ==
    LET must0 == msrs.IA32_VMX_CR4_FIXED1
        must1 == msrs.IA32_VMX_CR4_FIXED0
        val == val0 \cup {"VMXE"}
    IN  [vmcs EXCEPT !.cr4 = (val \cap must0) \cup must1,
                     !.cr4_read_shadow = val,
                     !.cr4_mask = must1 \cup Cr4Not(must0)]

\* Vcpu::get_guest_cr(4).
get_guest_cr4(vmcs) ==
    (vmcs.cr4_read_shadow \cap vmcs.cr4_mask)
        \cup (vmcs.cr4 \cap Cr4Not(vmcs.cr4_mask))

\* Vcpu::new() on an Intel CPU has reached vmcs_setup(): the VMCS is clear,
\* the Linux context holds the CR4 Linux ran with.
VmcsInit ==
    /\ vendor = "vmx"
    /\ online_cpus = ExitCpus
    /\ ENTERED_CPUS = ExitCpus
    /\ INITED_CPUS = 0
    /\ INIT_EARLY_OK = 1
    /\ INIT_LATE_OK = 0
    /\ ERROR_NUM = 0
    /\ ACTIVATED_CPUS = 0
    /\ TRY_DISABLE_CPUS = 0
    /\ early = PrimaryEarlyStages
    /\ pc = [c \in CPUS |-> IF c < ExitCpus THEN "vmcs_guest" ELSE "offline"]
    /\ is_primary = [c \in CPUS |-> c = 0]
    /\ err = [c \in CPUS |-> 0]
    /\ ret = [c \in CPUS |-> << >>]
    /\ state = [c \in CPUS |-> "HvDisabled"]
    /\ cpus = [c \in CPUS |-> 0]
    /\ \E lrip \in LoaderRips, cr4 \in SUBSET (Cr4Bits \ {"RSVD", "VMXE"}) :
          linux = [c \in CPUS |-> [rip |-> lrip, cr4 |-> cr4]]
    /\ vcpu = [c \in CPUS |->
                  [vmcs |-> [cr4 |-> {}, cr4_read_shadow |-> {},
                             cr4_mask |-> {}]]]
    /\ \E f0 \in Cr4Fixed0s, f1 \in Cr4Fixed1s :
          host = [c \in CPUS |-> << [IA32_VMX_CR4_FIXED0 |-> f0,
                                     IA32_VMX_CR4_FIXED1 |-> f1] >>]
    /\ deact_fails = 0
    /\ mem = PageTableNew("host")

\* setup_vmcs_guest(): self.set_guest_cr(4, linux.cr4.bits()).
SetupVmcsGuest(c) ==
    /\ pc[c] = "vmcs_guest"
    /\ vcpu' = [vcpu EXCEPT ![c].vmcs =
                   set_guest_cr4(@, host[c][1], linux[c].cr4)]
    /\ pc' = [pc EXCEPT ![c] = "vmcs_control"]
    /\ UNCHANGED << mem, vendor, online_cpus, ENTERED_CPUS, INITED_CPUS,
                    INIT_EARLY_OK, INIT_LATE_OK, ERROR_NUM, ACTIVATED_CPUS,
                    TRY_DISABLE_CPUS, early, is_primary, err, ret, state,
                    cpus, linux, host, deact_fails >>

\* setup_vmcs_control(), the last step of vmcs_setup(): Vcpu::new() returns.
SetupVmcsControl(c) ==
    /\ pc[c] = "vmcs_control"
    /\ vcpu' = [vcpu EXCEPT ![c].vmcs = CR4_GUEST_HOST_MASK_reset(@)]
    /\ pc' = [pc EXCEPT ![c] = "vcpu_new_done"]
    /\ UNCHANGED << mem, vendor, online_cpus, ENTERED_CPUS, INITED_CPUS,
                    INIT_EARLY_OK, INIT_LATE_OK, ERROR_NUM, ACTIVATED_CPUS,
                    TRY_DISABLE_CPUS, early, is_primary, err, ret, state,
                    cpus, linux, host, deact_fails >>

VmcsNext == \E c \in CPUS : SetupVmcsGuest(c) \/ SetupVmcsControl(c)

VmcsSpec == VmcsInit /\ [][VmcsNext]_vars

\* What set_guest_cr(4, linux.cr4) computes on CPU c.
Cr4AsSet(c) ==
    set_guest_cr4(vcpu[c].vmcs, host[c][1], linux[c].cr4)

\* C33: after VMX vCPU construction the CR4 guest/host mask and read shadow
\* in the VMCS are the ones set_guest_cr(4, linux.cr4) computed
\* (mask = must1 | ~must0), and get_guest_cr(4) returns the read-shadow
\* value for the host-owned bits.
C33_Cr4MaskSurvivesSetup ==
    \A c \in CPUS :
        pc[c] = "vcpu_new_done"
            => /\ vcpu[c].vmcs.cr4_mask = Cr4AsSet(c).cr4_mask
               /\ vcpu[c].vmcs.cr4_read_shadow = Cr4AsSet(c).cr4_read_shadow
               /\ get_guest_cr4(vcpu[c].vmcs) \cap Cr4AsSet(c).cr4_mask
                      = vcpu[c].vmcs.cr4_read_shadow
                            \cap Cr4AsSet(c).cr4_mask

\* ------------------------------------------------ activation as a whole
\* The entry call of CPU c has returned an error code to the loader.
EntryReturnedError(c) == pc[c] = "returned" /\ ret[c] # << 0 >>

\* C34: activation is all-or-nothing: it never happens that some CPU is
\* running as guest while another CPU's entry call has returned an error to
\* the loader.
C34_ActivationAllOrNothing ==
    \A c, d \in CPUS : ~(pc[c] = "guest" /\ EntryReturnedError(d))

\* ------------------------------------------- activation and disable barrier
\* Every online CPU has passed the last barrier of main() and is about to
\* call activate_vmm().
BarrierInit ==
    /\ vendor \in {"vmx", "svm"}
    /\ online_cpus = MaxOnline
    /\ ENTERED_CPUS = MaxOnline
    /\ INITED_CPUS = MaxOnline
    /\ INIT_EARLY_OK = 1
    /\ INIT_LATE_OK = 1
    /\ ERROR_NUM = 0
    /\ ACTIVATED_CPUS = 0
    /\ TRY_DISABLE_CPUS = 0
    /\ early = PrimaryEarlyStages
    /\ pc = [c \in CPUS |-> IF c < MaxOnline THEN "activate" ELSE "offline"]
    /\ \E p \in 0 .. (MaxOnline - 1) : is_primary = [c \in CPUS |-> c = p]
    /\ err = [c \in CPUS |-> 0]
    /\ ret = [c \in CPUS |-> << >>]
    /\ state = [c \in CPUS |-> IF c < MaxOnline THEN "HvEnabled"
                                               ELSE "HvDisabled"]
    /\ cpus = [c \in CPUS |-> 0]
    /\ \E lrip \in LoaderRips :
          /\ linux = [c \in CPUS |-> [rip |-> lrip]]
          /\ vcpu = [c \in CPUS |-> VcpuNew([rip |-> lrip])]
    /\ host = [c \in CPUS |-> << >>]
    /\ deact_fails = 0
    /\ mem = PageTableNew("host")

\* The guest on CPU c issues the HypervisorDisable hypercall from
\* privileged mode.
GuestDisable(c) == VmExitHypercall(c) /\ pc'[c] = "dis_inc"

BarrierStep(c) ==
    \/ ActivateVmm(c)
    \/ EntryStoreErr(c)
    \/ EntryReturn(c)
    \/ GuestDisable(c)
    \/ DisableInc(c)
    \/ DisableDeactivate(c)

BarrierNext == \E c \in CPUS : BarrierStep(c)

\* Every CPU keeps executing, and every CPU that is running the guest
\* eventually issues the privileged HypervisorDisable hypercall.
BarrierSpec ==
    BarrierInit /\ [][BarrierNext]_vars
        /\ \A c \in CPUS : WF_vars(BarrierStep(c))

InDisableBarrier(c) == pc[c] \in {"dis_inc", "dis_wait"}

\* C35: if every activated CPU eventually issues the HypervisorDisable
\* hypercall from privileged mode, every one of them eventually leaves the
\* disable barrier and is deactivated, and ACTIVATED_CPUS ends at 0.
C35_DisableBarrierTerminates ==
    (<>(\E c \in CPUS : pc[c] = "guest"))
        => <>[](/\ \A c \in CPUS : pc[c] # "guest" /\ ~InDisableBarrier(c)
                /\ ACTIVATED_CPUS = 0)

\* ------------------------------------------- PerCpu::init(), step by step
\* Page-table roots Linux may run on when it calls the entry point, and the
\* root of the hypervisor's page table.
LinuxCr3s == {4096, 8192}

HvRoot == FrameBase

\* The host state of a CPU that the claim is about: CR3, the descriptor
\* table registers, and whether VMX (CR4.VMXE + VMXON) or SVM (EFER.SVME)
\* is on.
HostState(cr3, virt) ==
    [cr3 |-> cr3, gdtr |-> "linux", idtr |-> "linux", virt |-> virt]

\* Every online CPU is at `cpu_data.init(linux_sp, root_cell)?` in main().
SetupInit ==
    /\ vendor \in {"vmx", "svm"}
    /\ online_cpus = PanicCpus
    /\ ENTERED_CPUS = PanicCpus
    /\ INITED_CPUS = 0
    /\ INIT_EARLY_OK = 1
    /\ INIT_LATE_OK = 0
    /\ ERROR_NUM = 0
    /\ ACTIVATED_CPUS = 0
    /\ TRY_DISABLE_CPUS = 0
    /\ early = PrimaryEarlyStages
    /\ pc = [c \in CPUS |-> IF c < PanicCpus THEN "init" ELSE "offline"]
    /\ is_primary = [c \in CPUS |-> c = 0]
    /\ err = [c \in CPUS |-> 0]
    /\ ret = [c \in CPUS |-> << >>]
    /\ state = [c \in CPUS |-> "HvDisabled"]
    /\ cpus = [c \in CPUS |-> 0]
    /\ \E lrip \in LoaderRips, cr3 \in LinuxCr3s :
          /\ linux = [c \in CPUS |-> [rip |-> lrip, cr3 |-> cr3]]
          /\ host = [c \in CPUS |-> << HostState(cr3, FALSE) >>]
    /\ vcpu = [c \in CPUS |-> VcpuNew([rip |-> 0])]
    /\ deact_fails = 0
    /\ mem = PageTableNew("host")

\* A step of PerCpu::init() on CPU c that leaves everything but the CPU's
\* position, its error and its host state alone.
SetupFrame ==
    UNCHANGED << mem, vendor, online_cpus, ENTERED_CPUS, INITED_CPUS,
                 INIT_EARLY_OK, INIT_LATE_OK, ERROR_NUM, ACTIVATED_CPUS,
                 TRY_DISABLE_CPUS, early, is_primary, ret, state, cpus,
                 linux, vcpu, deact_fails >>

\* init(): linux = load_from(linux_sp); hvm = cell.hvm.clone();
\* hvm.insert(..)?; hvm.insert(..)?
SetupInsert(c) ==
    /\ pc[c] = "init"
    /\ \/ /\ pc' = [pc EXCEPT ![c] = "init_activate"]
          /\ err' = err
       \/ MainErr(c, ENOMEM)
    /\ host' = host
    /\ SetupFrame

\* init(): self.hvm.activate(): CR3 := root of the hypervisor's page table.
hvm_activate(h) == [h EXCEPT !.cr3 = HvRoot]

SetupActivate(c) ==
    /\ pc[c] = "init_activate"
    /\ host' = [host EXCEPT ![c] = << hvm_activate(@[1]) >>]
    /\ pc' = [pc EXCEPT ![c] = "vcpu_new"]
    /\ err' = err
    /\ SetupFrame

\* Vcpu::new() up to the allocation of its frames:
\* check_hypervisor_feature()?, "already turned on" (VMX: EIO, SVM: EBUSY),
\* "VMX disabled by BIOS" (ENODEV), VmxRegion::new()? / Frame::new()?.
SetupVcpuCheck(c) ==
    /\ pc[c] = "vcpu_new"
    /\ \/ /\ pc' = [pc EXCEPT ![c] = "vcpu_enable"]
          /\ err' = err
       \/ \E num \in PerCpuInitErrs : MainErr(c, num)
    /\ host' = host
    /\ SetupFrame

\* Vcpu::new(): VMX writes CR0/CR4 (CR4.VMXE) and executes VMXON, which
\* can fail; SVM sets EFER.SVME and VM_HSAVE_PA, then fills the VMCB.
SetupVcpuEnable(c) ==
    /\ pc[c] = "vcpu_enable"
    /\ host' = [host EXCEPT ![c] = << [@[1] EXCEPT !.virt = TRUE] >>]
    /\ IF vendor = "vmx"
       THEN \/ /\ pc' = [pc EXCEPT ![c] = "vmcs_setup"]
               /\ err' = err
            \/ MainErr(c, EIO)
       ELSE /\ pc' = [pc EXCEPT ![c] = "init_done"]
            /\ err' = err
    /\ SetupFrame

\* VMX Vcpu::new(): ret.vmcs_setup(linux, cell)?
SetupVmcs(c) ==
    /\ pc[c] = "vmcs_setup"
    /\ \/ /\ pc' = [pc EXCEPT ![c] = "init_done"]
          /\ err' = err
       \/ MainErr(c, EIO)
    /\ host' = host
    /\ SetupFrame

\* init(): self.state = HvEnabled; main(): INITED_CPUS.fetch_add(1).
SetupDone(c) ==
    /\ pc[c] = "init_done"
    /\ vcpu' = [vcpu EXCEPT ![c] = VcpuNew(linux[c])]
    /\ state' = [state EXCEPT ![c] = "HvEnabled"]
    /\ INITED_CPUS' = INITED_CPUS + 1
    /\ pc' = [pc EXCEPT ![c] = "wait_inited"]
    /\ UNCHANGED << mem, vendor, online_cpus, ENTERED_CPUS, INIT_EARLY_OK,
                    INIT_LATE_OK, ERROR_NUM, ACTIVATED_CPUS, TRY_DISABLE_CPUS,
                    early, is_primary, err, ret, cpus, linux, host,
                    deact_fails >>

SetupNext ==
    \E c \in CPUS :
        \/ SetupInsert(c)
        \/ SetupActivate(c)
        \/ SetupVcpuCheck(c)
        \/ SetupVcpuEnable(c)
        \/ SetupVmcs(c)
        \/ SetupDone(c)
        \/ EntryStoreErr(c)
        \/ EntryReturn(c)

SetupSpec == SetupInit /\ [][SetupNext]_vars

\* The host state CPU c had when Linux called the entry point.
HostStateOnEntry(c) == HostState(linux[c].cr3, FALSE)

\* C36: if per-CPU setup fails on a CPU after that CPU has switched to the
\* hypervisor's page table or enabled VMX/SVM, the entry point returns to
\* the loader with the CPU's host state as it was on entry: the original
\* CR3, the original descriptor tables, VMX/SVM disabled.
C36_FailedSetupRestoresHost ==
    \A c \in CPUS :
        EntryReturnedError(c) => host[c][1] = HostStateOnEntry(c)

\* ----------------------------------------- a table and its clone, both used
\* GenericPageTable::map(region) on the clone of the table
\* (PerCpu::init(): hvm = cell.hvm.read().clone(); hvm.insert(..)).
CloneMap ==
    /\ mem.ops < MaxPageOps
    /\ mem.last.res # "panic"
    /\ mem.clone # 0
    /\ \E region \in PageRegions :
          LET r == MapLoop([Clone(mem) EXCEPT !.log = NoLog], region,
                           region.start, region.size)
          IN  mem' = [r.pt EXCEPT !.root = mem.root,
                                  !.mapped = mem.mapped,
                                  !.ops = @ + 1,
                                  !.last = [op |-> "clone_map", res |-> r.res,
                                            start |-> region.start,
                                            size |-> region.size]]
    /\ UNCHANGED << vendor, online_cpus, ENTERED_CPUS, INITED_CPUS,
                    INIT_EARLY_OK, INIT_LATE_OK, ERROR_NUM, ACTIVATED_CPUS,
                    TRY_DISABLE_CPUS, early, pc, is_primary, err, ret, state,
                    cpus, linux, vcpu, host, deact_fails >>

\* GenericPageTable::unmap(region) on the clone of the table.
CloneUnmap ==
    /\ mem.ops < MaxPageOps
    /\ mem.last.res # "panic"
    /\ mem.clone # 0
    /\ \E range \in PageRanges :
          LET r == UnmapLoop([Clone(mem) EXCEPT !.log = NoLog], range.start,
                             range.size)
          IN  mem' = [r.pt EXCEPT !.root = mem.root,
                                  !.mapped = mem.mapped,
                                  !.ops = @ + 1,
                                  !.last = [op |-> "clone_unmap",
                                            res |-> r.res,
                                            start |-> range.start,
                                            size |-> range.size]]
    /\ UNCHANGED << vendor, online_cpus, ENTERED_CPUS, INITED_CPUS,
                    INIT_EARLY_OK, INIT_LATE_OK, ERROR_NUM, ACTIVATED_CPUS,
                    TRY_DISABLE_CPUS, early, pc, is_primary, err, ret, state,
                    cpus, linux, vcpu, host, deact_fails >>

IsolationNext == PageMap \/ PageUnmap \/ PageClone \/ CloneMap \/ CloneUnmap

\* A page table that is cloned once; both the table and its clone are
\* mapped into and unmapped from.
IsolationSpec == PageInit /\ [][IsolationNext]_vars

\* The step is a map or unmap on the table (P) that has a clone (C), or on
\* the clone.
OpOnClonee ==
    mem.clone # 0 /\ mem'.ops = mem.ops + 1 /\ mem'.last.op \in {"map", "unmap"}

OpOnClone ==
    mem.clone # 0 /\ mem'.ops = mem.ops + 1
        /\ mem'.last.op \in {"clone_map", "clone_unmap"}

\* C37: after C = P.clone(), a later map or unmap on P does not change the
\* result of C.query(v) for any v, and a later map or unmap on C does not
\* change the result of P.query(v) for any v.
C37_CloneQueriesIsolated ==
    [][/\ OpOnClonee => \A v \in PageVaddrs :
                           query(Clone(mem'), v) = query(Clone(mem), v)
       /\ OpOnClone => \A v \in PageVaddrs :
                           query(mem', v) = query(mem, v)]_vars

\* --------------------------------------------- mapping again after unmap
\* No page that was mapped and not unmapped since overlaps [start, start+size).
RangeIsFree(pt, start, size) ==
    \A m \in pt.mapped : m.vaddr + m.size <= start \/ start + size <= m.vaddr

\* The last call on the table was a successful unmap() starting at `start`.
JustUnmapped(pt, start) ==
    pt.last.op = "unmap" /\ pt.last.res = "Ok" /\ pt.last.start = start

\* The step is a map() of a region at the address unmap() has just freed,
\* and nothing in the region's range is mapped.
MapAfterUnmap ==
    /\ mem'.ops = mem.ops + 1
    /\ mem'.last.op = "map"
    /\ JustUnmapped(mem, mem'.last.start)
    /\ RangeIsFree(mem, mem'.last.start, mem'.last.size)

\* C38: after a region has been unmapped, mapping a region over the same
\* virtual range succeeds again, whatever page sizes the old and the new
\* mapping use (running out of frames apart).
C38_MapAfterUnmapSucceeds ==
    [][MapAfterUnmap => mem'.last.res \in {"Ok", "NoMemory"}]_vars

\* ------------------------------------ regions of any size, map and unmap
\* Regions as MemoryRegion::new_with_offset_mapper() builds them: the start
\* addresses are aligned down to 4 KiB, the size is taken as given.
SizedRegions ==
    [start : {0, Size4K}, paddr : {0}, size : {100, Size4K, Size4K + 1,
                                              2 * Size4K},
     flags : {{"READ", "WRITE"}}]

\* What the build makes of `size -= page_size` below 0: a panic with
\* overflow checks, otherwise a wrapped counter close to 2^64 with which the
\* loop keeps mapping pages past the end of the region.
UnderflowOutcomes == {"panic", "overrun"}

\* GenericPageTable::map(region) with a region of any size.
SizedMap ==
    /\ mem.ops < MaxPageOps
    /\ mem.last.res \notin UnderflowOutcomes
    /\ \E region \in SizedRegions :
          LET r == MapLoop([mem EXCEPT !.log = NoLog], region, region.start,
                           region.size)
          IN  \E res \in IF r.res = "underflow" THEN UnderflowOutcomes
                                                 ELSE {r.res} :
                 mem' = [r.pt EXCEPT !.ops = @ + 1,
                                     !.last = [op |-> "map", res |-> res,
                                               start |-> region.start,
                                               size |-> region.size]]
    /\ UNCHANGED << vendor, online_cpus, ENTERED_CPUS, INITED_CPUS,
                    INIT_EARLY_OK, INIT_LATE_OK, ERROR_NUM, ACTIVATED_CPUS,
                    TRY_DISABLE_CPUS, early, pc, is_primary, err, ret, state,
                    cpus, linux, vcpu, host, deact_fails >>

\* GenericPageTable::unmap(region) with a region of any size.
SizedUnmap ==
    /\ mem.ops < MaxPageOps
    /\ mem.last.res \notin UnderflowOutcomes
    /\ \E region \in SizedRegions :
          LET r == UnmapLoop([mem EXCEPT !.log = NoLog], region.start,
                             region.size)
          IN  mem' = [r.pt EXCEPT !.ops = @ + 1,
                                  !.last = [op |-> "unmap", res |-> r.res,
                                            start |-> region.start,
                                            size |-> region.size]]
    /\ UNCHANGED << vendor, online_cpus, ENTERED_CPUS, INITED_CPUS,
                    INIT_EARLY_OK, INIT_LATE_OK, ERROR_NUM, ACTIVATED_CPUS,
                    TRY_DISABLE_CPUS, early, pc, is_primary, err, ret, state,
                    cpus, linux, vcpu, host, deact_fails >>

SizedNext == SizedMap \/ SizedUnmap

SizedSpec == PageInit /\ [][SizedNext]_vars

\* C39: map() and unmap() terminate for every region, including a region
\* whose size is not a multiple of 4 KiB: the remaining-size counter reaches
\* exactly 0 and never underflows (the call returns Ok or a paging error,
\* it neither panics nor runs past the region).
C39_LoopsEndAtZero ==
    mem.last.op \in {"map", "unmap"} => mem.last.res \notin UnderflowOutcomes

\* ------------------------------------------------ unrecognized hypercalls
\* The hypercall codes of HypercallCodes that HyperCallCode::try_from()
\* rejects: every code but HypervisorDisable = 0.
UnknownCodes == HypercallCodes \ {0}

\* What a guest can see of CPU c and of the hypervisor's activation is the
\* same before and after the step, the guest's own RIP apart.
NoDeactivation(c) ==
    /\ pc'[c] = "guest"
    /\ UNCHANGED << state, ACTIVATED_CPUS, TRY_DISABLE_CPUS, cpus, linux,
                    host >>

====
